---- MODULE Spec2Model ----
(***************************************************************************)
(* A model of bilibili_dm_lib: the Client (rooms, subscriber channels,     *)
(* Start/AddRoom/RemoveRoom), the per-room supervisor roomConn (run,       *)
(* connect, heartbeatLoop, backoff), the packet codec and the dispatcher.  *)
(*                                                                         *)
(* Specifications:                                                         *)
(*   Spec         the Client's lifecycle: Start, AddRoom, RemoveRoom,      *)
(*                Subscribe, the room tasks and their dispatch             *)
(*   SpecConn     one roomConn: run / connect / heartbeatLoop              *)
(*   FairSpecConn SpecConn with the fairness of the Go scheduler, of the   *)
(*                timers and of the calls that take ctx                    *)
(*   SpecBackoff  backoff as run calls it, over its attempt numbers        *)
(*   SpecRead     one room's read loop: decodePackets and dispatchPacket   *)
(*                against the frames a server sends                        *)
(*   SpecDispatch dispatchPacket over command packets, with callbacks      *)
(*                registered meanwhile and one subscriber channel full     *)
(*   SpecMutex    c.mu: the read locks of dispatchCommand and publishEvent *)
(*                of two rooms against the write lock of an On* call       *)
(*   SpecSplit    splitMessage over byte strings and chunk lengths         *)
(*   SpecSender   Sender.Send of concurrent callers: waitCooldown, sendOne *)
(*   SpecCodec    decodePackets over buffers of plain, compressed and      *)
(*                malformed frames, on 32- and 64-bit targets              *)
(*   SpecAdd      AddRoom called by several goroutines at the same time    *)
(*   SpecWrite    rc.wsMu: the auth write and the heartbeat writes of the  *)
(*                cycles of one roomConn                                   *)
(*   SpecCycle    SpecConn with what the roomConn resolved and wrote on    *)
(*                the socket of every cycle                                *)
(*   SpecHeart    dispatchPacket over heartbeat and authentication replies *)
(*   SpecStream   the read loop of a streaming roomConn against malformed  *)
(*                messages and a cancelled context                         *)
(*   SpecReentrant SpecMutex with callbacks that register callbacks        *)
(*   SpecLoop     splitMessage step by step, for every maxLength           *)
(***************************************************************************)
EXTENDS Integers, Sequences, FiniteSets, TLC

(***************************************************************************)
(* Bounds of the model.                                                    *)
(***************************************************************************)
\* Room ids are 1..MaxRooms; a configuration holds at most MaxRooms ids.
MaxRooms == 2
\* Room goroutines alive at the same time.
MaxTasks == 2
\* Goroutines calling AddRoom at the same time in SpecAdd.
MaxAdders == 2
\* Calls of Start in one behaviour (one after the other).
MaxStarts == 2
\* Calls of Subscribe in one behaviour.
MaxSubs == 1
\* Entries of the observation log (callback calls, sends, drops).
MaxLog == 1
\* Failed connection cycles of one supervisor in SpecConn (the value attempt
\* reaches there).
MaxAttempt == 3
\* The attempt numbers backoff is applied to in SpecBackoff.
MaxBackoffAttempt == 70
\* Command frames the server sends to the room of SpecRead.
MaxWire == 4
\* Heartbeats written on one connection.
MaxBeats == 1
\* Heartbeat goroutines of one roomConn alive at the same time in SpecWrite.
MaxHb == 2
\* Callbacks registered in one behaviour of SpecDispatch.
MaxCallbacks == 2
\* Goroutines calling registration methods in SpecMutex.
MaxRegistrars == 2
\* Goroutines calling Send on one Sender.
MaxCallers == 2
\* Ticks of the clock in SpecSender.
MaxTime == 4
\* The Sender's configuration in SpecSender: the cooldown (WithCooldown), in
\* ticks, and the characters of a chunk (WithMaxLength).
Cooldown == 2
SenderMaxLength == 1
\* Bytes of the message given to splitMessage, and the largest maxLen.
MaxMsgBytes == 5
MaxChunkLen == 3
\* Bytes of the message and iterations of the loop of a splitMessage taken
\* step by step, for every maxLen from -MaxNegLen to MaxLoopLen.
MaxLoopBytes == 3
MaxLoopIter == 4
MaxNegLen == 2
MaxLoopLen == 2
\* Frames of the buffer given to decodePackets in SpecCodec, and frames
\* inside one envelope.
MaxFrames == 3
MaxInner == 2
\* Frames of one message a streaming roomConn reads in SpecStream.
MaxStream == 2

(***************************************************************************)
(* Program constants.                                                      *)
(***************************************************************************)
ProtoCommand == 0
ProtoSpecial == 1
ProtoCommandZlib == 2
ProtoCommandBrotli == 3
OpHeartbeat == 2
OpHeartbeatReply == 3
OpCommand == 5
OpCertificate == 7
OpCertificateResp == 8
headerSize == 16
SubCap == 256
\* time.Second in nanoseconds, and the seconds of time.Minute
Second == 1000000000
SecondsPerMinute == 60

(***************************************************************************)
(* Generic helpers.                                                        *)
(***************************************************************************)
Range(s) == {s[i] : i \in DOMAIN s}

Bytes == 0..255

(***************************************************************************)
(* packet.go: the wire format.  A byte string is a sequence of 0..255.     *)
(***************************************************************************)
PutUint32(n) ==
    << (n \div 16777216) % 256, (n \div 65536) % 256, (n \div 256) % 256, n % 256 >>

PutUint16(n) == << (n \div 256) % 256, n % 256 >>

Uint32(b) == ((b[1] * 256 + b[2]) * 256 + b[3]) * 256 + b[4]

Uint16(b) == b[1] * 256 + b[2]

\* An encodePacket that leaves the sequence field zero.
encodePacketNoSequence(p) ==
    PutUint32(headerSize + Len(p.Body)) \o PutUint16(headerSize)
        \o PutUint16(p.Protocol) \o PutUint32(p.OpType) \o PutUint32(0)
        \o p.Body

\* encodePacket: the 16-byte big-endian header followed by the body.
encodePacket(p) ==
    PutUint32(headerSize + Len(p.Body)) \o PutUint16(headerSize)
        \o PutUint16(p.Protocol) \o PutUint32(p.OpType) \o PutUint32(p.Sequence)
        \o p.Body

(***************************************************************************)
(* compress/zlib and andybalholm/brotli are libraries outside the          *)
(* repository.  A compressed stream is modelled as a one-byte stream       *)
(* header followed by the payload; any other byte string is rejected.      *)
(***************************************************************************)
compressZlib(data) == <<120>> \o data

compressBrotli(data) == <<27>> \o data

decompressZlib(data) ==
    IF Len(data) >= 1 /\ data[1] = 120
    THEN [ok |-> TRUE, data |-> Tail(data)]
    ELSE [ok |-> FALSE, data |-> <<>>]

decompressBrotli(data) ==
    IF Len(data) >= 1 /\ data[1] = 27
    THEN [ok |-> TRUE, data |-> Tail(data)]
    ELSE [ok |-> FALSE, data |-> <<>>]

\* return nil, fmt.Errorf(...)
DecodeErr == [ok |-> FALSE, panic |-> FALSE, packets |-> <<>>]

\* A run-time panic inside decodePackets (slice bounds out of range).
DecodePanic == [ok |-> FALSE, panic |-> TRUE, packets |-> <<>>]

\* The order in which the packets of a nested (decompressed) buffer join the
\* packets decoded so far: append(packets, nested...).
AppendNestedReversed(packets, nested) == nested \o packets

\* A decodePackets that keeps only the packets of the envelope.
AppendNestedOnly(packets, nested) == nested

AppendNested(packets, nested) == packets \o nested

\* totalSize is a uint32 of 2^31 or more.
Huge(size) == size[1] >= 128

\* int(totalSize) > len(data), where int has `bits` bits: a totalSize of 2^31
\* or more is a negative int when int has 32 bits.
exceeds(size, n, bits) ==
    IF Huge(size) THEN bits = 64 ELSE Uint32(size) > n

\* totalSize < headerSize, compared as uint32
belowHeader(size) == ~Huge(size) /\ Uint32(size) < headerSize

\* decodePackets: loop over the frames of data, recursing into compressed ones.
\* acc is the slice `packets` built so far.  A totalSize that passes the
\* size check and is beyond the buffer makes data[headerSize:totalSize] panic.
RECURSIVE decodeLoop(_, _, _)
decodeLoop(data, acc, bits) ==
    IF Len(data) < headerSize THEN [ok |-> TRUE, panic |-> FALSE, packets |-> acc]
    ELSE
      LET size == SubSeq(data, 1, 4) IN
      IF exceeds(size, Len(data), bits) \/ belowHeader(size) THEN DecodeErr
      ELSE IF Huge(size) THEN DecodePanic
      ELSE
        LET totalSize == Uint32(size)
            proto  == Uint16(SubSeq(data, 7, 8))
            opType == Uint32(SubSeq(data, 9, 12))
            seq    == Uint32(SubSeq(data, 13, 16))
            body   == SubSeq(data, headerSize + 1, totalSize)
            rest   == SubSeq(data, totalSize + 1, Len(data))
        IN
        IF proto \in {ProtoCommandBrotli, ProtoCommandZlib} THEN
          LET dec == IF proto = ProtoCommandBrotli
                     THEN decompressBrotli(body) ELSE decompressZlib(body) IN
          IF ~dec.ok THEN DecodeErr
          ELSE
            LET nested == IF Len(dec.data) < headerSize THEN DecodeErr
                          ELSE decodeLoop(dec.data, <<>>, bits) IN
            IF ~nested.ok THEN (IF nested.panic THEN DecodePanic ELSE DecodeErr)
            ELSE decodeLoop(rest, AppendNested(acc, nested.packets), bits)
        ELSE
          decodeLoop(rest, Append(acc, [Protocol |-> proto, OpType |-> opType,
                                        Sequence |-> seq, Body |-> body]), bits)

decodePackets(data, bits) ==
    IF Len(data) < headerSize THEN DecodeErr ELSE decodeLoop(data, <<>>, bits)

(***************************************************************************)
(* encoding/json is a library outside the repository.  A JSON command body *)
(* is modelled as the five bytes  { c : p }  where c is the code of the    *)
(* "cmd" string (0: no cmd field) and p the payload found under            *)
(* "info"/"data" (0: the payload is missing or does not have the shape the *)
(* typed parser needs).  Every other byte string is not valid JSON.        *)
(***************************************************************************)
CmdName(c) ==
    CASE c = 0 -> ""
      [] c = 1 -> "DANMU_MSG"
      [] c = 2 -> "SEND_GIFT"
      [] c = 3 -> "SUPER_CHAT_MESSAGE"
      [] c = 4 -> "GUARD_BUY"
      [] c = 5 -> "LIVE"
      [] c = 6 -> "PREPARING"
      [] c = 7 -> "INTERACT_WORD"
      [] OTHER -> "FOO_BAR"

jsonBody(c, p) == <<123, c, 58, p, 125>>

jsonUnmarshal(body) ==
    IF Len(body) = 5 /\ body[1] = 123 /\ body[3] = 58 /\ body[5] = 125
    THEN [ok |-> TRUE, cmd |-> CmdName(body[2]), payload |-> body[4]]
    ELSE [ok |-> FALSE, cmd |-> "", payload |-> 0]

(***************************************************************************)
(* Events.  Data is a sequence of numbers for every event type: the        *)
(* popularity, the raw body, the typed payload, or <<room, live>>.         *)
(***************************************************************************)
NoEvent == [RoomID |-> 0, Type |-> "nil", Data |-> <<>>]

\* The typed parsers (parseDanmaku, parseGift, ...) return nil when the payload
\* cannot be unmarshalled into the shape they need.
parseTyped(roomID, type, payload) ==
    IF payload = 0 THEN NoEvent
    ELSE [RoomID |-> roomID, Type |-> type, Data |-> <<payload>>]

\* parseCommandPacket without the default case: the switch ends in the case
\* of INTERACT_WORD.
parseCommandPacketNoDefault(roomID, body) ==
    LET cmd == jsonUnmarshal(body) IN
    IF ~cmd.ok THEN NoEvent
    ELSE CASE cmd.cmd = "DANMU_MSG" -> parseTyped(roomID, "danmaku", cmd.payload)
           [] cmd.cmd = "SEND_GIFT" -> parseTyped(roomID, "gift", cmd.payload)
           [] cmd.cmd = "SUPER_CHAT_MESSAGE" -> parseTyped(roomID, "superchat", cmd.payload)
           [] cmd.cmd = "GUARD_BUY" -> parseTyped(roomID, "guard", cmd.payload)
           [] cmd.cmd = "LIVE" ->
                [RoomID |-> roomID, Type |-> "live", Data |-> <<roomID, 1>>]
           [] cmd.cmd = "PREPARING" ->
                [RoomID |-> roomID, Type |-> "preparing", Data |-> <<roomID, 0>>]
           [] OTHER -> parseTyped(roomID, "interact", cmd.payload)

parseCommandPacket(roomID, body) ==
    LET cmd == jsonUnmarshal(body) IN
    IF ~cmd.ok THEN NoEvent
    ELSE CASE cmd.cmd = "DANMU_MSG" -> parseTyped(roomID, "danmaku", cmd.payload)
           [] cmd.cmd = "SEND_GIFT" -> parseTyped(roomID, "gift", cmd.payload)
           [] cmd.cmd = "SUPER_CHAT_MESSAGE" -> parseTyped(roomID, "superchat", cmd.payload)
           [] cmd.cmd = "GUARD_BUY" -> parseTyped(roomID, "guard", cmd.payload)
           [] cmd.cmd = "LIVE" ->
                [RoomID |-> roomID, Type |-> "live", Data |-> <<roomID, 1>>]
           [] cmd.cmd = "PREPARING" ->
                [RoomID |-> roomID, Type |-> "preparing", Data |-> <<roomID, 0>>]
           [] cmd.cmd = "INTERACT_WORD" -> parseTyped(roomID, "interact", cmd.payload)
           [] OTHER -> NoEvent

extractCMD(body) ==
    IF Len(body) > 4 THEN jsonUnmarshal(body).cmd ELSE ""

\* A handleHeartbeatReply that wants more than the four bytes.
handleHeartbeatReplyOver4(body) ==
    IF Len(body) > 4 THEN <<Uint32(SubSeq(body, 1, 4))>> ELSE <<>>

\* handleHeartbeatReply: <<popularity>>, or <<>> for nil.
handleHeartbeatReply(body) ==
    IF Len(body) >= 4 THEN <<Uint32(SubSeq(body, 1, 4))>> ELSE <<>>

(***************************************************************************)
(* int64 arithmetic (time.Duration is an int64 of nanoseconds).  A value   *)
(* is the sequence of its 8 two's-complement bytes, lowest byte first, so  *)
(* that products wrap exactly as Go's do.                                  *)
(***************************************************************************)
Limbs == 1..8

\* The bytes of a natural number n, lowest first, len of them.
RECURSIVE NatBytes(_, _)
NatBytes(n, len) ==
    IF len = 0 THEN <<>> ELSE <<n % 256>> \o NatBytes(n \div 256, len - 1)

\* The int64 of a natural number below 2^31.
Int64(n) == NatBytes(n, 8)

\* The sum of a[i] * b[k + 1 - i] for i in 1..k: column k of the product.
RECURSIVE Column(_, _, _, _)
Column(a, b, k, i) ==
    IF i > k THEN 0 ELSE a[i] * b[k + 1 - i] + Column(a, b, k, i + 1)

\* The columns carried into bytes, the carry out of byte 8 dropped.
RECURSIVE Carry(_, _, _)
Carry(cols, k, carry) ==
    IF k > 8 THEN <<>>
    ELSE LET sum == cols[k] + carry
         IN  <<sum % 256>> \o Carry(cols, k + 1, sum \div 256)

\* a * b, wrapping.
Mul64(a, b) ==
    LET cols == [k \in Limbs |-> Column(a, b, k, 1)] IN Carry(cols, 1, 0)

IsNeg64(a) == a[8] >= 128

\* a > b as unsigned numbers, comparing from byte i downwards.
RECURSIVE GtFrom(_, _, _)
GtFrom(a, b, i) ==
    IF i = 0 THEN FALSE
    ELSE IF a[i] # b[i] THEN a[i] > b[i]
    ELSE GtFrom(a, b, i - 1)

\* a > b as int64.
Gt64(a, b) ==
    IF IsNeg64(a) # IsNeg64(b) THEN IsNeg64(b) ELSE GtFrom(a, b, 8)

\* 2^k for k in 0..62.
Pow2(k) == [i \in Limbs |-> IF i = (k \div 8) + 1 THEN 2 ^ (k % 8) ELSE 0]

MinInt64 == [i \in Limbs |-> IF i = 8 THEN 128 ELSE 0]

MaxInt64 == [i \in Limbs |-> IF i = 8 THEN 127 ELSE 255]

\* The targets the library is built for; they differ in the float64 -> int64
\* conversion of a value outside int64, which Go leaves to the implementation.
Archs == {"amd64", "arm64"}

\* time.Duration(math.Pow(2, float64(k))) for k >= 0: exact up to 2^62; from
\* 2^63 on (and for +Inf) amd64 gives the minimum int64 and arm64 saturates.
PowDuration(k, arch) ==
    IF k <= 62 THEN Pow2(k)
    ELSE IF arch = "amd64" THEN MinInt64 ELSE MaxInt64

baseBackoff == Int64(Second)

maxBackoff == Mul64(Int64(2), Mul64(Int64(SecondsPerMinute), Int64(Second)))

backoff(attempt, arch) ==
    LET d == Mul64(baseBackoff, PowDuration(attempt - 1, arch))
    IN  IF Gt64(d, maxBackoff) THEN maxBackoff ELSE d

(***************************************************************************)
(* State.                                                                  *)
(***************************************************************************)
VARIABLES
    \* --- Client (client.go) ---
    parentCtx,   \* c.parentCtx: 0 is nil, k >= 1 the context of the k-th Start
    ctxDone,     \* the contexts given to Start that have been cancelled
    startPc,     \* where the goroutine inside Start is
    roomIDs,     \* c.config.roomIDs
    rooms,       \* c.rooms: room -> [ok, cancel]; cancel 0 is the nil reservation,
                 \* cancel t the CancelFunc of room task t
    tasks,       \* the room goroutines: [room, ctx, pc, cancelled]
    wg,          \* c.wg
    adder,       \* the callers inside AddRoom
    subs,        \* c.subs
    nextCh,      \* number of channels made by Subscribe
    closed,      \* the closed channels
    chanBuf,     \* the buffered events of every channel
    handlers,    \* number of callbacks registered in every callback list
    log,         \* what the consumers observed: callback calls, sends, drops
    panicked,    \* "none", or the runtime panic that ended the process
    shutdown,    \* the contexts whose Start has closed the channels
    startResult, \* what the last Start returned
    \* --- one roomConn (conn.go) ---
    arch,        \* the target the library was built for
    rcCtxDone,   \* the ctx given to run is cancelled
    rcPc,        \* where the goroutine inside run / connect is
    realRoomID,  \* rc.realRoomID, 0 until resolved
    wssURL,      \* the endpoint of the current cycle
    attempt,     \* run's attempt counter
    delay,       \* run's delay, the last result of backoff
    wsOpen,      \* the cycle's socket is open (ws.Close not yet called)
    hbPc,        \* the heartbeat goroutine of the current cycle
    hbLinger,    \* heartbeat goroutines of earlier cycles, cancelled and not yet returned
    hbSent,      \* heartbeats written on the current socket
    streamed,    \* the current cycle entered its read loop
    \* --- the server's side of one room's socket ---
    wire,        \* the command frames sent so far, in the order they were framed
    \* --- c.mu, the RWMutex of the Client ---
    dPc,         \* where the dispatch of every room's read loop is
    regPc,       \* where every caller of a registration method is
    \* --- one Sender (sender.go) ---
    cookie,      \* [sessdata, biliJCT]: each of s.config's two is non-empty
    now,         \* the clock, in ticks
    lastSend,    \* s.lastSend: room -> time of the last recorded send
    callers,     \* the callers of Send: [pc, room, chunks, i, wake, cancelled, out, err]
    lastReq,     \* room -> time of the last HTTP request made for it
    \* --- splitMessage ---
    splitMsg,    \* the msg argument, as the bytes of a Go string
    maxLen,      \* the maxLen argument
    chunks,      \* [done, val]: splitMessage has returned, and its result
    loopPc,      \* where a splitMessage taken step by step is
    loopRunes,   \* its local variable runes
    \* --- decodePackets by itself ---
    intSize,     \* the bits of an int on the target: 32 or 64
    frames,      \* what the buffer was made of, frame by frame
    buf,         \* the data argument
    decoded,     \* [done, val]: decodePackets has returned or panicked, and its result
    \* --- what the callers of AddRoom saw ---
    added,       \* room -> number of AddRoom calls that returned nil after Start
    \* --- rc.wsMu and the writers of one roomConn's sockets ---
    wsMu,        \* rc.wsMu is locked
    hbs,         \* the heartbeat goroutines: [pc, live, n]
    \* --- what one roomConn did on the network ---
    token,       \* connect's token of the current cycle
    sent,        \* the packets written on the current cycle's socket, in order
    resolves     \* what every call of getRoomInfo returned: -1 an error, else the id

clientVars == << parentCtx, ctxDone, startPc, roomIDs, rooms, tasks, wg, adder,
                 shutdown, startResult >>

dispVars == << subs, nextCh, closed, chanBuf, handlers, log, panicked >>

connVars == << arch, rcCtxDone, rcPc, realRoomID, wssURL, attempt, delay, wsOpen,
              hbPc, hbLinger, hbSent, streamed >>

readVars == << wire >>

lockVars == << dPc, regPc >>

sendVars == << cookie, now, lastSend, callers, lastReq >>

splitVars == << splitMsg, maxLen, chunks, loopPc, loopRunes >>

codecVars == << intSize, frames, buf, decoded >>

addVars == << added >>

writeVars == << wsMu, hbs >>

cycleVars == << token, sent, resolves >>

extVars == << lockVars, sendVars, splitVars, codecVars, addVars, writeVars, cycleVars >>

vars == << clientVars, dispVars, connVars, readVars, extVars >>

RoomSet == 1..MaxRooms
TaskSet == DOMAIN tasks
ChanSet == 1..nextCh
AdderSet == DOMAIN adder

HandlerLists == {"onDanmaku", "onGift", "onSuper", "onGuard", "onLive",
                 "onPrepare", "onInteract", "onRaw", "onHeart"}

(***************************************************************************)
(* client.go: the dispatcher.  A dispatcher state d is the record          *)
(* [buf, log, panicked]; the registries (handlers, subs, closed) are read. *)
(***************************************************************************)
Entry(fn, idx, room, cmd, arg) ==
    [fn |-> fn, idx |-> idx, room |-> room, cmd |-> cmd, arg |-> arg]

\* for _, fn := range list { fn(arg) }
Invoke(d, list, room, cmd, arg) ==
    [d EXCEPT !.log = @ \o [i \in 1..handlers[list] |-> Entry(list, i, room, cmd, arg)]]

\* select { case ch <- ev: default: }
trySend(d, ch, ev) ==
    IF d.panicked # "none" THEN d
    ELSE IF ch \in closed THEN [d EXCEPT !.panicked = "send on closed channel"]
    ELSE IF Len(d.buf[ch]) < SubCap
         THEN [d EXCEPT !.buf[ch] = Append(@, ev),
                        !.log = Append(@, Entry("send", ch, ev.RoomID, ev.Type, ev.Data))]
         ELSE [d EXCEPT !.log = Append(@, Entry("drop", ch, ev.RoomID, ev.Type, ev.Data))]

\* publishLoop leaving the loop at the first full channel.
RECURSIVE publishLoopUntilFull(_, _, _)
publishLoopUntilFull(d, chs, ev) ==
    IF chs = <<>> THEN d
    ELSE IF Head(chs) \notin closed /\ Len(d.buf[Head(chs)]) >= SubCap
         THEN trySend(d, Head(chs), ev)
         ELSE publishLoopUntilFull(trySend(d, Head(chs), ev), Tail(chs), ev)

RECURSIVE publishLoop(_, _, _)
publishLoop(d, chs, ev) ==
    IF chs = <<>> THEN d ELSE publishLoop(trySend(d, Head(chs), ev), Tail(chs), ev)

publishEvent(d, ev) == publishLoop(d, subs, ev)

\* The callback list picked by the type switch on event.Data.
TypedList(event) ==
    CASE event.Type = "danmaku" -> "onDanmaku"
      [] event.Type = "gift" -> "onGift"
      [] event.Type = "superchat" -> "onSuper"
      [] event.Type = "guard" -> "onGuard"
      [] event.Type \in {"live", "preparing"} ->
            IF event.Data[2] = 1 THEN "onLive" ELSE "onPrepare"
      [] OTHER -> "onInteract"

\* dispatchCommand calling the raw callbacks only for what it does not
\* recognise.
dispatchCommandRawIfUnknown(d, roomID, body) ==
    LET event == parseCommandPacket(roomID, body)
        cmd   == extractCMD(body)
    IN  IF event = NoEvent
        THEN publishEvent(Invoke(d, "onRaw", roomID, cmd, body),
                          [RoomID |-> roomID, Type |-> "raw", Data |-> body])
        ELSE publishEvent(Invoke(d, TypedList(event), roomID, "", event.Data), event)

dispatchCommand(d, roomID, body) ==
    LET event == parseCommandPacket(roomID, body)
        cmd   == extractCMD(body)
        d1    == Invoke(d, "onRaw", roomID, cmd, body)
    IN  IF event = NoEvent
        THEN publishEvent(d1, [RoomID |-> roomID, Type |-> "raw", Data |-> body])
        ELSE publishEvent(Invoke(d1, TypedList(event), roomID, "", event.Data), event)

dispatchPacket(d, roomID, pkt) ==
    CASE pkt.OpType = OpHeartbeatReply ->
            LET hb == handleHeartbeatReply(pkt.Body) IN
            IF hb # <<>>
            THEN publishEvent(Invoke(d, "onHeart", roomID, "", hb),
                              [RoomID |-> roomID, Type |-> "heartbeat", Data |-> hb])
            ELSE d
      [] pkt.OpType = OpCommand -> dispatchCommand(d, roomID, pkt.Body)
      [] OTHER -> d

\* for _, pkt := range packets { rc.dispatch(rc.realRoomID, pkt) }
RECURSIVE dispatchAll(_, _, _)
dispatchAll(d, roomID, pkts) ==
    IF pkts = <<>> THEN d
    ELSE dispatchAll(dispatchPacket(d, roomID, Head(pkts)), roomID, Tail(pkts))

Disp == [buf |-> chanBuf, log |-> log, panicked |-> panicked]

SetDisp(d) ==
    /\ chanBuf' = d.buf
    /\ log' = d.log
    /\ panicked' = d.panicked

\* Subscribe: make(chan Event, 256); c.subs = append(c.subs, ch)
Subscribe ==
    /\ panicked = "none"
    /\ nextCh' = nextCh + 1
    /\ subs' = Append(subs, nextCh + 1)
    /\ chanBuf' = Append(chanBuf, <<>>)
    /\ UNCHANGED << closed, handlers, log, panicked >>

(***************************************************************************)
(* client.go: Start, AddRoom, RemoveRoom, startRoom.                       *)
(* tasks holds the live room goroutines; a task's index stands for its     *)
(* roomCtx and its cancel function, and a slot is free again once its      *)
(* goroutine has exited.  adder holds the callers inside AddRoom.          *)
(***************************************************************************)
NoTask == [room |-> 0, ctx |-> 0, pc |-> "none", cancelled |-> FALSE]

FreeTasks == {t \in TaskSet : tasks[t].pc = "none"}

\* The n lowest free task slots.
RECURSIVE FreeSlots(_, _)
FreeSlots(n, free) ==
    IF n = 0 THEN <<>>
    ELSE LET t == CHOOSE x \in free : \A y \in free : x <= y
         IN  <<t>> \o FreeSlots(n - 1, free \ {t})

NoRoom == [ok |-> FALSE, cancel |-> 0]

IdleAdder == [pc |-> "idle", room |-> 0, ctx |-> 0]

NewTask(r, ctx) ==
    [room |-> r, ctx |-> ctx, pc |-> "spawned", cancelled |-> FALSE]

\* roomCtx.Done(): the room's own cancel was called, or the parent is cancelled.
CtxDone(t) == tasks[t].cancelled \/ tasks[t].ctx \in ctxDone

\* The id getRoomInfo resolves a short room id to (chosen by the server).
getRoomInfo(short) == 1000 + short

\* The messages a room's socket delivers in the lifecycle specification.
ClientMsgs ==
    { encodePacket([Protocol |-> ProtoCommand, OpType |-> OpCommand, Sequence |-> 0,
                    Body |-> jsonBody(1, 1)]) }

\* c.subs after Start has closed the channels: c.subs = nil
SubsKeptAfterClose(s) == s

SubsAfterClose(s) == <<>>

\* Start: c.parentCtx = ctx
StartCall ==
    /\ panicked = "none"
    /\ startPc = "idle"
    /\ parentCtx < MaxStarts
    /\ parentCtx' = parentCtx + 1
    /\ startPc' = "check"
    /\ UNCHANGED << ctxDone, roomIDs, rooms, tasks, wg, adder, shutdown, startResult,
                    dispVars >>

\* Start: the check of len(c.config.roomIDs) and the loop that starts one
\* goroutine per configured room (wg.Add(1); go ...).
StartSpawn ==
    /\ panicked = "none"
    /\ startPc = "check"
    /\ IF roomIDs = <<>>
       THEN /\ startPc' = "idle"
            /\ startResult' = "no rooms configured"
            /\ UNCHANGED << tasks, wg >>
       ELSE /\ Cardinality(FreeTasks) >= Len(roomIDs)
            /\ LET slots == FreeSlots(Len(roomIDs), FreeTasks) IN
               tasks' = [t \in TaskSet |->
                          IF \E i \in DOMAIN slots : slots[i] = t
                          THEN NewTask(roomIDs[CHOOSE i \in DOMAIN slots : slots[i] = t],
                                       parentCtx)
                          ELSE tasks[t]]
            /\ wg' = wg + Len(roomIDs)
            /\ startPc' = "waitCtx"
            /\ UNCHANGED startResult
    /\ UNCHANGED << parentCtx, ctxDone, roomIDs, rooms, adder, shutdown, dispVars >>

\* Start: <-ctx.Done(); c.wg.Wait()
StartWait ==
    /\ panicked = "none"
    /\ startPc = "waitCtx"
    /\ parentCtx \in ctxDone
    /\ wg = 0
    /\ startPc' = "close"
    /\ UNCHANGED << parentCtx, ctxDone, roomIDs, rooms, tasks, wg, adder, shutdown,
                    startResult, dispVars >>

\* Start: under c.mu.Lock, close every channel of c.subs, c.subs = nil; return ctx.Err()
StartClose ==
    /\ panicked = "none"
    /\ startPc = "close"
    /\ IF \E i \in DOMAIN subs : subs[i] \in closed
       THEN /\ panicked' = "close of closed channel"
            /\ UNCHANGED << closed, subs, startPc, shutdown, startResult >>
       ELSE /\ closed' = closed \cup Range(subs)
            /\ subs' = SubsAfterClose(subs)
            /\ startPc' = "idle"
            /\ shutdown' = shutdown \cup {parentCtx}
            /\ startResult' = "context canceled"
            /\ UNCHANGED panicked
    /\ UNCHANGED << parentCtx, ctxDone, roomIDs, rooms, tasks, wg, adder,
                    nextCh, chanBuf, handlers, log >>

\* The caller of Start cancels the context it passed.
CancelCtx(k) ==
    /\ panicked = "none"
    /\ k \in 1..parentCtx
    /\ k \notin ctxDone
    /\ ctxDone' = ctxDone \cup {k}
    /\ UNCHANGED << parentCtx, startPc, roomIDs, rooms, tasks, wg, adder, shutdown,
                    startResult, dispVars >>

\* AddRoom: ctx := c.parentCtx, read under parentMu
AddRoomCall(a, r) ==
    /\ panicked = "none"
    /\ adder[a].pc = "idle"
    /\ parentCtx = 0 => Len(roomIDs) < MaxRooms
    /\ adder' = [adder EXCEPT ![a] = [pc |-> "gotCtx", room |-> r, ctx |-> parentCtx]]
    /\ UNCHANGED << parentCtx, ctxDone, startPc, roomIDs, rooms, tasks, wg, shutdown,
                    startResult, dispVars >>

\* AddRoom, ctx == nil: append the room to the configuration and return nil
AddRoomConfig(a) ==
    /\ panicked = "none"
    /\ adder[a].pc = "gotCtx"
    /\ adder[a].ctx = 0
    /\ roomIDs' = Append(roomIDs, adder[a].room)
    /\ adder' = [adder EXCEPT ![a] = IdleAdder]
    /\ UNCHANGED << parentCtx, ctxDone, startPc, rooms, tasks, wg, shutdown,
                    startResult, dispVars >>

\* An AddRoom that takes a nil entry (a reservation) for no entry.
existsWithCancel(r) == rooms[r].ok /\ rooms[r].cancel # 0

\* _, exists := c.rooms[roomID]
exists(r) == rooms[r].ok

\* AddRoom, ctx != nil: under roomsMu, fail if the room has an entry, else
\* reserve the slot with a nil cancel
AddRoomReserve(a) ==
    /\ panicked = "none"
    /\ adder[a].pc = "gotCtx"
    /\ adder[a].ctx # 0
    /\ IF exists(adder[a].room)
       THEN /\ adder' = [adder EXCEPT ![a] = IdleAdder]
            /\ UNCHANGED rooms
       ELSE /\ rooms' = [rooms EXCEPT ![adder[a].room] = [ok |-> TRUE, cancel |-> 0]]
            /\ adder' = [adder EXCEPT ![a].pc = "reserved"]
    /\ UNCHANGED << parentCtx, ctxDone, startPc, roomIDs, tasks, wg, shutdown,
                    startResult, dispVars >>

\* AddRoom: c.wg.Add(1); go func() { defer c.wg.Done(); c.startRoom(ctx, roomID) }()
AddRoomSpawn(a) ==
    /\ panicked = "none"
    /\ adder[a].pc = "reserved"
    /\ FreeTasks # {}
    /\ tasks' = [tasks EXCEPT ![FreeSlots(1, FreeTasks)[1]] =
                                 NewTask(adder[a].room, adder[a].ctx)]
    /\ wg' = wg + 1
    /\ adder' = [adder EXCEPT ![a] = IdleAdder]
    /\ UNCHANGED << parentCtx, ctxDone, startPc, roomIDs, rooms, shutdown,
                    startResult, dispVars >>

\* The rooms map after RemoveRoom(r): delete(c.rooms, roomID)
RoomsAfterRemoveAll(r) == [q \in RoomSet |-> NoRoom]

RoomsAfterRemove(r) == [rooms EXCEPT ![r] = NoRoom]

\* RemoveRoom: under roomsMu, call the entry's cancel if it is not nil and
\* delete the entry
RemoveRoom(r) ==
    /\ panicked = "none"
    /\ IF rooms[r].ok
       THEN /\ tasks' = [t \in TaskSet |->
                          IF t = rooms[r].cancel
                          THEN [tasks[t] EXCEPT !.cancelled = TRUE] ELSE tasks[t]]
            /\ rooms' = RoomsAfterRemove(r)
       ELSE UNCHANGED << tasks, rooms >>
    /\ UNCHANGED << parentCtx, ctxDone, startPc, roomIDs, wg, adder, shutdown,
                    startResult, dispVars >>

\* startRoom: roomCtx, cancel := context.WithCancel(ctx); c.rooms[roomID] = cancel
TaskRegister(t) ==
    /\ panicked = "none"
    /\ tasks[t].pc = "spawned"
    /\ rooms' = [rooms EXCEPT ![tasks[t].room] = [ok |-> TRUE, cancel |-> t]]
    /\ tasks' = [tasks EXCEPT ![t].pc = "connecting"]
    /\ UNCHANGED << parentCtx, ctxDone, startPc, roomIDs, wg, adder, shutdown,
                    startResult, dispVars >>

\* rc.run: connect got through resolve, dial and auth, and enters its read
\* loop.  Every call on the way takes ctx and fails once ctx is done.
TaskConnect(t) ==
    /\ panicked = "none"
    /\ tasks[t].pc = "connecting"
    /\ ~CtxDone(t)
    /\ tasks' = [tasks EXCEPT ![t].pc = "streaming"]
    /\ UNCHANGED << parentCtx, ctxDone, startPc, roomIDs, rooms, wg, adder, shutdown,
                    startResult, dispVars >>

\* rc.run: ReadMessage fails while ctx is live; run backs off and connects again
TaskDisconnect(t) ==
    /\ panicked = "none"
    /\ tasks[t].pc = "streaming"
    /\ ~CtxDone(t)
    /\ tasks' = [tasks EXCEPT ![t].pc = "connecting"]
    /\ UNCHANGED << parentCtx, ctxDone, startPc, roomIDs, rooms, wg, adder, shutdown,
                    startResult, dispVars >>

\* connect's read loop: ReadMessage returns a message, its packets are
\* dispatched, and the loop checks ctx.Err() before the next read
TaskDispatch(t, msg) ==
    /\ panicked = "none"
    /\ tasks[t].pc = "streaming"
    /\ Len(log) < MaxLog
    /\ LET dec == decodePackets(msg, intSize) IN
       SetDisp(IF dec.ok THEN dispatchAll(Disp, getRoomInfo(tasks[t].room), dec.packets)
               ELSE Disp)
    /\ tasks' = [tasks EXCEPT ![t].pc = IF CtxDone(t) THEN "returned" ELSE "streaming"]
    /\ UNCHANGED << parentCtx, ctxDone, startPc, roomIDs, rooms, wg, adder, shutdown,
                    startResult, subs, nextCh, closed, handlers >>

\* rc.run returns (ctx.Err() != nil after connect returned, or ctx.Done() in
\* the backoff wait; from the read loop this needs ReadMessage to return),
\* then startRoom's deferred delete(c.rooms, roomID) and the goroutine's deferred
\* c.wg.Done().  The return is local to the task and wg.Done commutes with
\* every step of the other goroutines, so the three are taken as one step.
TaskExit(t) ==
    /\ panicked = "none"
    /\ \/ tasks[t].pc = "returned"
       \/ tasks[t].pc \in {"connecting", "streaming"} /\ CtxDone(t)
    /\ rooms' = [rooms EXCEPT ![tasks[t].room] = NoRoom]
    /\ wg' = wg - 1
    /\ tasks' = [tasks EXCEPT ![t] = NoTask]
    /\ UNCHANGED << parentCtx, ctxDone, startPc, roomIDs, adder, shutdown,
                    startResult, dispVars >>

ClientSubscribe == nextCh < MaxSubs /\ Subscribe /\ UNCHANGED clientVars

\* NewClient with WithRoomID options: every configuration of at most MaxRooms
\* room ids, a room configured twice included.
RECURSIVE SeqsUpTo(_, _)
SeqsUpTo(S, n) ==
    IF n = 0 THEN {<<>>}
    ELSE SeqsUpTo(S, n - 1) \cup
         {Append(c, r) : c \in {x \in SeqsUpTo(S, n - 1) : Len(x) = n - 1}, r \in S}

InitClient ==
    /\ parentCtx = 0
    /\ ctxDone = {}
    /\ startPc = "idle"
    /\ roomIDs \in SeqsUpTo(RoomSet, MaxRooms)
    /\ rooms = [r \in RoomSet |-> NoRoom]
    /\ tasks = [t \in 1..MaxTasks |-> NoTask]
    /\ wg = 0
    /\ adder = <<IdleAdder>>
    /\ subs = <<>>
    /\ nextCh = 0
    /\ closed = {}
    /\ chanBuf = <<>>
    /\ handlers = [l \in HandlerLists |-> 0]
    /\ log = <<>>
    /\ panicked = "none"
    /\ shutdown = {}
    /\ startResult = "none"

\* A roomConn as startRoom makes it, before run is called.
NewConn ==
    /\ rcCtxDone = FALSE
    /\ rcPc = "new"
    /\ realRoomID = 0
    /\ wssURL = ""
    /\ attempt = 0
    /\ delay = Int64(0)
    /\ wsOpen = FALSE
    /\ hbPc = "none"
    /\ hbLinger = 0
    /\ hbSent = 0
    /\ streamed = FALSE

\* c.mu of a new Client: no dispatch and no registration call is running.
NewMu ==
    /\ dPc = [r \in RoomSet |-> "idle"]
    /\ regPc = [g \in 1..MaxRegistrars |-> "idle"]

\* A map without entries (a new sync.Map).
NoEntries == [k \in {} |-> 0]

\* m.Store(k, v)
Store(m, k, v) == [x \in DOMAIN m \cup {k} |-> IF x = k THEN v ELSE m[x]]

IdleCaller ==
    [pc |-> "idle", room |-> 0, chunks |-> <<>>, i |-> 0, wake |-> 0,
     cancelled |-> FALSE, out |-> <<>>, err |-> [kind |-> "none", chunk |-> 0]]

\* NewSender, nobody calling Send yet.
NoSends ==
    /\ now = 0
    /\ lastSend = NoEntries
    /\ callers = [c \in 1..MaxCallers |-> IdleCaller]
    /\ lastReq = NoEntries

\* splitMessage not called.
NoSplit ==
    /\ splitMsg = <<>>
    /\ maxLen = 1
    /\ chunks = [done |-> FALSE, val |-> <<>>]
    /\ loopPc = "none"
    /\ loopRunes = <<>>

\* decodePackets called only by the read loops, on a 64-bit target.
NoCodec ==
    /\ intSize = 64
    /\ frames = <<>>
    /\ buf = <<>>
    /\ decoded = [done |-> FALSE, val |-> DecodeErr]

\* No AddRoom call has returned.
NoAdds == added = [r \in RoomSet |-> 0]

\* No heartbeat goroutine: heartbeatLoop not started, or returned.
NoHb == [pc |-> "none", live |-> FALSE, n |-> 0]

\* The zero value of rc.wsMu, and no heartbeat goroutine.
NoWrites ==
    /\ wsMu = FALSE
    /\ hbs = [i \in 1..MaxHb |-> NoHb]

\* A roomConn that has made no call on the network.
NoCycle ==
    /\ token = ""
    /\ sent = <<>>
    /\ resolves = <<>>

\* WithSenderCookie(sessdata, biliJCT) with both strings non-empty.
BothCookies == [sessdata |-> TRUE, biliJCT |-> TRUE]

InitExt ==
    /\ NewMu
    /\ cookie = BothCookies
    /\ NoSends
    /\ NoSplit
    /\ NoCodec
    /\ NoAdds
    /\ NoWrites
    /\ NoCycle

Init ==
    /\ InitClient
    /\ arch = "amd64"
    /\ NewConn
    /\ wire = <<>>
    /\ InitExt

Next ==
    \/ StartCall /\ UNCHANGED << connVars, readVars, extVars >>
    \/ StartSpawn /\ UNCHANGED << connVars, readVars, extVars >>
    \/ StartWait /\ UNCHANGED << connVars, readVars, extVars >>
    \/ StartClose /\ UNCHANGED << connVars, readVars, extVars >>
    \/ \E k \in 1..parentCtx : CancelCtx(k) /\ UNCHANGED << connVars, readVars, extVars >>
    \/ \E a \in AdderSet, r \in RoomSet : AddRoomCall(a, r) /\ UNCHANGED << connVars, readVars, extVars >>
    \/ \E a \in AdderSet : AddRoomConfig(a) /\ UNCHANGED << connVars, readVars, extVars >>
    \/ \E a \in AdderSet : AddRoomReserve(a) /\ UNCHANGED << connVars, readVars, extVars >>
    \/ \E a \in AdderSet : AddRoomSpawn(a) /\ UNCHANGED << connVars, readVars, extVars >>
    \/ \E r \in RoomSet : RemoveRoom(r) /\ UNCHANGED << connVars, readVars, extVars >>
    \/ \E t \in TaskSet : TaskRegister(t) /\ UNCHANGED << connVars, readVars, extVars >>
    \/ \E t \in TaskSet : TaskConnect(t) /\ UNCHANGED << connVars, readVars, extVars >>
    \/ \E t \in TaskSet : TaskDisconnect(t) /\ UNCHANGED << connVars, readVars, extVars >>
    \/ \E t \in TaskSet, msg \in ClientMsgs : TaskDispatch(t, msg) /\ UNCHANGED << connVars, readVars, extVars >>
    \/ \E t \in TaskSet : TaskExit(t) /\ UNCHANGED << connVars, readVars, extVars >>
    \/ ClientSubscribe /\ UNCHANGED << connVars, readVars, extVars >>

Spec == Init /\ [][Next]_vars

(***************************************************************************)
(* conn.go: one roomConn.  rcPc is the position of the goroutine that runs *)
(* run and connect: "new" (run not yet called), "resolve", "endpoint",     *)
(* "dial", "auth", "loop" (the ctx.Err check of the read loop), "read"     *)
(* (blocked in ws.ReadMessage), "returned" (connect has returned to run),  *)
(* "backoff" (the select on ctx.Done and the timer), "stopped" (run has    *)
(* returned).  The packets a read delivers are decoded and dispatched as   *)
(* in TaskDispatch.  A network call that fails while ctx is live starts a  *)
(* failed cycle; the model lets MaxAttempt of them happen.                 *)
(***************************************************************************)
MayFail == attempt < MaxAttempt \/ rcCtxDone

\* if ctx.Err() != nil { return }
runReturnsAlways(cancelled) == TRUE

runReturns(cancelled) == cancelled

\* startRoom: rc.run(roomCtx); run calls connect
RunStart ==
    /\ rcPc = "new"
    /\ rcPc' = "resolve"
    /\ UNCHANGED << arch, rcCtxDone, realRoomID, wssURL, attempt, delay, wsOpen, hbPc,
                    hbLinger, hbSent, streamed >>

\* A connect that never takes rc.realRoomID for resolved.
cachedNever(id) == FALSE

\* connect: rc.realRoomID == 0 means "not resolved yet"
cached(id) == id # 0

\* connect: if rc.realRoomID == 0 { getRoomInfo(ctx, ...) }
ConnResolve(ok) ==
    /\ rcPc = "resolve"
    /\ IF cached(realRoomID)
       THEN rcPc' = "endpoint" /\ UNCHANGED realRoomID
       ELSE IF ok /\ ~rcCtxDone
            THEN rcPc' = "endpoint" /\ realRoomID' = getRoomInfo(1)
            ELSE MayFail /\ rcPc' = "returned" /\ UNCHANGED realRoomID
    /\ UNCHANGED << arch, rcCtxDone, wssURL, attempt, delay, wsOpen, hbPc, hbLinger,
                    hbSent, streamed >>

\* connect: getDanmuInfo(ctx, ...), falling back to the default server
ConnEndpoint(ok) ==
    /\ rcPc = "endpoint"
    /\ wssURL' = IF ok /\ ~rcCtxDone THEN "host" ELSE "default"
    /\ rcPc' = "dial"
    /\ UNCHANGED << arch, rcCtxDone, realRoomID, attempt, delay, wsOpen, hbPc, hbLinger,
                    hbSent, streamed >>

\* A connect that starts heartbeatLoop as soon as the socket is open.
ConnDialStartsHeartbeat(ok) ==
    /\ rcPc = "dial"
    /\ IF ok /\ ~rcCtxDone
       THEN rcPc' = "auth" /\ wsOpen' = TRUE /\ hbPc' = "waiting"
       ELSE MayFail /\ rcPc' = "returned" /\ UNCHANGED << wsOpen, hbPc >>
    /\ hbSent' = 0
    /\ UNCHANGED << arch, rcCtxDone, realRoomID, wssURL, attempt, delay, hbLinger,
                    streamed >>

\* connect: dialer.DialContext(ctx, wssURL, header); defer ws.Close()
ConnDial(ok) ==
    /\ rcPc = "dial"
    /\ IF ok /\ ~rcCtxDone
       THEN rcPc' = "auth" /\ wsOpen' = TRUE
       ELSE MayFail /\ rcPc' = "returned" /\ UNCHANGED wsOpen
    /\ hbSent' = 0
    /\ UNCHANGED << arch, rcCtxDone, realRoomID, wssURL, attempt, delay, hbPc, hbLinger,
                    streamed >>

\* connect: write the auth packet under wsMu, start heartbeatLoop and enter
\* the read loop; a failed write returns through the deferred ws.Close
ConnAuth(ok) ==
    /\ rcPc = "auth"
    /\ IF ok
       THEN rcPc' = "loop" /\ hbPc' = "waiting" /\ streamed' = TRUE /\ UNCHANGED wsOpen
       ELSE MayFail /\ rcPc' = "returned" /\ wsOpen' = FALSE /\ UNCHANGED << hbPc, streamed >>
    /\ UNCHANGED << arch, rcCtxDone, realRoomID, wssURL, attempt, delay, hbLinger, hbSent >>

\* connect returns from its read loop: the deferred hbCancel() and ws.Close()
LeaveLoop ==
    /\ rcPc' = "returned"
    /\ wsOpen' = FALSE
    /\ hbPc' = "none"
    /\ hbLinger' = IF hbPc = "waiting" THEN hbLinger + 1 ELSE hbLinger

\* read loop: if ctx.Err() != nil { return ctx.Err() }
ConnLoop ==
    /\ rcPc = "loop"
    /\ IF rcCtxDone THEN LeaveLoop
       ELSE rcPc' = "read" /\ UNCHANGED << wsOpen, hbPc, hbLinger >>
    /\ UNCHANGED << arch, rcCtxDone, realRoomID, wssURL, attempt, delay, hbSent, streamed >>

\* read loop: ws.ReadMessage() returns a message (decoded and dispatched,
\* then the loop goes on) or an error (connect returns).  It returns only
\* when the server sends, closes or the network fails: ctx does not wake it.
ReadMessage(ok) ==
    /\ rcPc = "read"
    /\ IF ok THEN rcPc' = "loop" /\ UNCHANGED << wsOpen, hbPc, hbLinger >>
       ELSE MayFail /\ LeaveLoop
    /\ UNCHANGED << arch, rcCtxDone, realRoomID, wssURL, attempt, delay, hbSent, streamed >>

\* run: after connect returned, return if ctx.Err() != nil, else attempt++,
\* delay := backoff(attempt), timer := time.NewTimer(delay)
RunAfterConnect ==
    /\ rcPc = "returned"
    /\ IF runReturns(rcCtxDone)
       THEN rcPc' = "stopped" /\ UNCHANGED << attempt, delay >>
       ELSE /\ attempt' = attempt + 1
            /\ delay' = backoff(attempt + 1, arch)
            /\ rcPc' = "backoff"
    /\ UNCHANGED << arch, rcCtxDone, realRoomID, wssURL, wsOpen, hbPc, hbLinger, hbSent,
                    streamed >>

\* run: case <-timer.C: the next cycle begins
BackoffTimer ==
    /\ rcPc = "backoff"
    /\ rcPc' = "resolve"
    /\ streamed' = FALSE
    /\ UNCHANGED << arch, rcCtxDone, realRoomID, wssURL, attempt, delay, wsOpen, hbPc,
                    hbLinger, hbSent >>

\* A run that waits with time.Sleep(delay): it does not see ctx in Backoff.
BackoffSleeps ==
    /\ FALSE
    /\ UNCHANGED connVars

\* run: case <-ctx.Done(): timer.Stop(); return
BackoffCancel ==
    /\ rcPc = "backoff"
    /\ rcCtxDone
    /\ rcPc' = "stopped"
    /\ UNCHANGED << arch, rcCtxDone, realRoomID, wssURL, attempt, delay, wsOpen, hbPc,
                    hbLinger, hbSent, streamed >>

\* The room's context is cancelled (RemoveRoom, or the context of Start).
RcCancel ==
    /\ ~rcCtxDone
    /\ rcCtxDone' = TRUE
    /\ UNCHANGED << arch, rcPc, realRoomID, wssURL, attempt, delay, wsOpen, hbPc,
                    hbLinger, hbSent, streamed >>

\* heartbeatLoop: case <-ticker.C: write a heartbeat under wsMu; a failed
\* write ends the heartbeat goroutine only
HbTick(ok) ==
    /\ hbPc = "waiting"
    /\ IF ok THEN hbSent < MaxBeats /\ hbSent' = hbSent + 1 /\ UNCHANGED hbPc
       ELSE hbPc' = "done" /\ UNCHANGED hbSent
    /\ UNCHANGED << arch, rcCtxDone, rcPc, realRoomID, wssURL, attempt, delay, wsOpen,
                    hbLinger, streamed >>

\* heartbeatLoop: case <-ctx.Done(): return, when the room's ctx is cancelled
HbStop ==
    /\ hbPc = "waiting"
    /\ rcCtxDone
    /\ hbPc' = "done"
    /\ UNCHANGED << arch, rcCtxDone, rcPc, realRoomID, wssURL, attempt, delay, wsOpen,
                    hbLinger, hbSent, streamed >>

\* heartbeatLoop of an earlier cycle: its hbCtx is cancelled and its socket
\* closed, so it returns on ctx.Done() or on the failed write of its next tick
HbLingerExit ==
    /\ hbLinger > 0
    /\ hbLinger' = hbLinger - 1
    /\ UNCHANGED << arch, rcCtxDone, rcPc, realRoomID, wssURL, attempt, delay, wsOpen,
                    hbPc, hbSent, streamed >>

\* The steps the goroutine of run takes without the server or the network
\* delivering anything on the open socket.
RunStep ==
    \/ RunStart
    \/ \E ok \in BOOLEAN : ConnResolve(ok)
    \/ \E ok \in BOOLEAN : ConnEndpoint(ok)
    \/ \E ok \in BOOLEAN : ConnDial(ok)
    \/ \E ok \in BOOLEAN : ConnAuth(ok)
    \/ ConnLoop
    \/ RunAfterConnect
    \/ BackoffTimer
    \/ BackoffCancel

InitConn ==
    /\ InitClient
    /\ roomIDs = <<>>
    /\ arch \in Archs
    /\ NewConn
    /\ wire = <<>>
    /\ InitExt

NextConn ==
    \/ RunStart /\ UNCHANGED << clientVars, dispVars, readVars, extVars >>
    \/ \E ok \in BOOLEAN : ConnResolve(ok) /\ UNCHANGED << clientVars, dispVars, readVars, extVars >>
    \/ \E ok \in BOOLEAN : ConnEndpoint(ok) /\ UNCHANGED << clientVars, dispVars, readVars, extVars >>
    \/ \E ok \in BOOLEAN : ConnDial(ok) /\ UNCHANGED << clientVars, dispVars, readVars, extVars >>
    \/ \E ok \in BOOLEAN : ConnAuth(ok) /\ UNCHANGED << clientVars, dispVars, readVars, extVars >>
    \/ ConnLoop /\ UNCHANGED << clientVars, dispVars, readVars, extVars >>
    \/ \E ok \in BOOLEAN : ReadMessage(ok) /\ UNCHANGED << clientVars, dispVars, readVars, extVars >>
    \/ RunAfterConnect /\ UNCHANGED << clientVars, dispVars, readVars, extVars >>
    \/ BackoffTimer /\ UNCHANGED << clientVars, dispVars, readVars, extVars >>
    \/ BackoffCancel /\ UNCHANGED << clientVars, dispVars, readVars, extVars >>
    \/ RcCancel /\ UNCHANGED << clientVars, dispVars, readVars, extVars >>
    \/ \E ok \in BOOLEAN : HbTick(ok) /\ UNCHANGED << clientVars, dispVars, readVars, extVars >>
    \/ HbStop /\ UNCHANGED << clientVars, dispVars, readVars, extVars >>
    \/ HbLingerExit /\ UNCHANGED << clientVars, dispVars, readVars, extVars >>

SpecConn == InitConn /\ [][NextConn]_vars

\* The Go scheduler runs every runnable goroutine, every timer fires, and
\* every call that takes ctx or a timeout returns; nothing is assumed of what
\* the server sends on an open socket.
FairConn ==
    /\ WF_vars(RunStep /\ UNCHANGED << clientVars, dispVars, readVars, extVars >>)
    /\ WF_vars(HbStop /\ UNCHANGED << clientVars, dispVars, readVars, extVars >>)
    /\ WF_vars(HbLingerExit /\ UNCHANGED << clientVars, dispVars, readVars, extVars >>)

FairSpecConn == InitConn /\ [][NextConn]_vars /\ FairConn

(***************************************************************************)
(* conn.go: backoff as run calls it.  run has no bound on attempt: every   *)
(* failed cycle increments it, so the supervisor is in every state of      *)
(* InitBackoff after that many failed resolutions.                         *)
(***************************************************************************)
InitBackoff ==
    /\ InitClient
    /\ roomIDs = <<>>
    /\ arch \in Archs
    /\ rcCtxDone = FALSE
    /\ rcPc = "returned"
    /\ realRoomID = 0
    /\ wssURL = ""
    /\ attempt \in 0..(MaxBackoffAttempt - 1)
    /\ delay = IF attempt = 0 THEN Int64(0) ELSE backoff(attempt, arch)
    /\ wsOpen = FALSE
    /\ hbPc = "none"
    /\ hbLinger = 0
    /\ hbSent = 0
    /\ streamed = FALSE
    /\ wire = <<>>
    /\ InitExt

NextBackoff == RunAfterConnect /\ UNCHANGED << clientVars, dispVars, readVars, extVars >>

SpecBackoff == InitBackoff /\ [][NextBackoff]_vars

(***************************************************************************)
(* One room's read loop against a server: every message the server sends   *)
(* is decoded by decodePackets and its packets dispatched in turn, to a    *)
(* client with registered callbacks and two subscriber channels, one of    *)
(* them one event short of full and read by a slow consumer.  The server   *)
(* numbers its command frames 1, 2, ... in the order it frames them, the   *)
(* number being the payload of the command.                                *)
(***************************************************************************)
CmdFrame(c, tag) ==
    encodePacket([Protocol |-> ProtoCommand, OpType |-> OpCommand, Sequence |-> 0,
                  Body |-> jsonBody(c, tag)])

\* n command frames numbered from tag on, one after the other.
RECURSIVE CmdFrames(_, _, _)
CmdFrames(c, tag, n) ==
    IF n = 0 THEN <<>> ELSE CmdFrame(c, tag) \o CmdFrames(c, tag + 1, n - 1)

\* One part of a message: n frames plain, or inside a compressed envelope.
Part(part, c, tag) ==
    CASE part.env = "plain" -> CmdFrames(c, tag, part.n)
      [] part.env = "zlib" ->
            encodePacket([Protocol |-> ProtoCommandZlib, OpType |-> OpCommand,
                          Sequence |-> 0,
                          Body |-> compressZlib(CmdFrames(c, tag, part.n))])
      [] part.env = "brotli" ->
            encodePacket([Protocol |-> ProtoCommandBrotli, OpType |-> OpCommand,
                          Sequence |-> 0,
                          Body |-> compressBrotli(CmdFrames(c, tag, part.n))])

RECURSIVE Message(_, _, _)
Message(parts, c, tag) ==
    IF parts = <<>> THEN <<>>
    ELSE Part(Head(parts), c, tag) \o Message(Tail(parts), c, tag + Head(parts).n)

\* What the server writes for the parts of a message, frame by frame.
RECURSIVE Framed(_, _, _)
Framed(parts, c, tag) ==
    IF parts = <<>> THEN <<>>
    ELSE [i \in 1..Head(parts).n |->
             [tag |-> tag + i - 1, cmd |-> CmdName(c), env |-> Head(parts).env]]
         \o Framed(Tail(parts), c, tag + Head(parts).n)

\* The shapes of the server's messages.
Shapes ==
    { << [env |-> "plain", n |-> 1] >>,
      << [env |-> "plain", n |-> 2] >>,
      << [env |-> "zlib", n |-> 2] >>,
      << [env |-> "brotli", n |-> 2] >>,
      << [env |-> "plain", n |-> 1], [env |-> "zlib", n |-> 2] >>,
      << [env |-> "brotli", n |-> 1], [env |-> "plain", n |-> 1] >> }

\* The command codes of the server's frames: DANMU_MSG and an unknown command.
ReadCmds == {1, 8}

\* An event published while the channel filled up: a heartbeat reply.
Filler == [RoomID |-> getRoomInfo(1), Type |-> "heartbeat", Data |-> <<1>>]

\* connect's read loop: ws.ReadMessage() returns the server's next message;
\* decodePackets; for _, pkt := range packets { rc.dispatch(rc.realRoomID, pkt) }
ReadDispatch(parts, c) ==
    /\ panicked = "none"
    /\ tasks[1].pc = "streaming"
    /\ Len(Framed(parts, c, 1)) <= MaxWire - Len(wire)
    /\ wire' = wire \o Framed(parts, c, Len(wire) + 1)
    /\ LET dec == decodePackets(Message(parts, c, Len(wire) + 1), intSize) IN
       SetDisp(IF dec.ok THEN dispatchAll(Disp, getRoomInfo(1), dec.packets) ELSE Disp)
    /\ UNCHANGED << subs, nextCh, closed, handlers >>

\* A consumer receives from its channel: ev := <-ch.  The consumer of
\* channel 1 is slow and receives only from a full channel.
Receive(ch) ==
    /\ panicked = "none"
    /\ ch \in ChanSet \ closed
    /\ chanBuf[ch] # <<>>
    /\ ch = 1 => Len(chanBuf[ch]) = SubCap
    /\ chanBuf' = [chanBuf EXCEPT ![ch] = Tail(@)]
    /\ UNCHANGED << subs, nextCh, closed, handlers, log, panicked, wire >>

\* The client after OnRawEvent, OnDanmaku twice, Subscribe twice and
\* Start(ctx) with room 1 configured, its room task streaming, and SubCap - 1
\* heartbeat replies published to the first channel and not yet received.
\* The observation log starts here.
InitRead ==
    /\ parentCtx = 1
    /\ ctxDone = {}
    /\ startPc = "waitCtx"
    /\ roomIDs = <<1>>
    /\ rooms = [r \in RoomSet |-> IF r = 1 THEN [ok |-> TRUE, cancel |-> 1] ELSE NoRoom]
    /\ tasks = [t \in 1..MaxTasks |->
                  IF t = 1 THEN [NewTask(1, 1) EXCEPT !.pc = "streaming"] ELSE NoTask]
    /\ wg = 1
    /\ adder = <<IdleAdder>>
    /\ shutdown = {}
    /\ startResult = "none"
    /\ subs = <<1, 2>>
    /\ nextCh = 2
    /\ closed = {}
    /\ chanBuf = << [i \in 1..(SubCap - 1) |-> Filler], <<>> >>
    /\ handlers = [l \in HandlerLists |->
                     CASE l = "onRaw" -> 1 [] l = "onDanmaku" -> 2 [] OTHER -> 0]
    /\ log = <<>>
    /\ panicked = "none"
    /\ arch = "amd64"
    /\ NewConn
    /\ wire = <<>>
    /\ InitExt

NextRead ==
    \/ \E parts \in Shapes, c \in ReadCmds :
          ReadDispatch(parts, c) /\ UNCHANGED << clientVars, connVars, extVars >>
    \/ \E ch \in ChanSet : Receive(ch) /\ UNCHANGED << clientVars, connVars, extVars >>

SpecRead == InitRead /\ [][NextRead]_vars

(***************************************************************************)
(* client.go: the dispatcher by itself.  Callbacks are registered, packets *)
(* of every kind are dispatched for either room, to a client with two      *)
(* subscriber channels: the consumer of the first has stopped receiving    *)
(* and its channel is full, the consumer of the second is prompt and has   *)
(* emptied its channel before the next packet is dispatched.  The          *)
(* observation log holds what the packet dispatched last produced.         *)
(***************************************************************************)
RECURSIVE SumOver(_, _)
SumOver(f, S) ==
    IF S = {} THEN 0
    ELSE LET x == CHOOSE y \in S : TRUE IN f[x] + SumOver(f, S \ {x})

\* OnDanmaku, OnGift, ..., OnRawEvent, OnHeartbeat:
\* c.mu.Lock(); c.on<X> = append(c.on<X>, fn); c.mu.Unlock()
Register(l) ==
    /\ panicked = "none"
    /\ SumOver(handlers, HandlerLists) < MaxCallbacks
    /\ handlers' = [handlers EXCEPT ![l] = @ + 1]
    /\ UNCHANGED << subs, nextCh, closed, chanBuf, log, panicked >>

CmdPacket(body) ==
    [Protocol |-> ProtoCommand, OpType |-> OpCommand, Sequence |-> 0, Body |-> body]

\* Bodies json.Unmarshal rejects: too short for a command, and not an object.
Unparseable == {<<1, 2, 3>>, <<91, 1, 58, 1, 93>>}

\* The command codes (see CmdName) and the payloads: 0 is a payload the typed
\* parser of the command cannot unmarshal, 1 one it can.
CmdCodes == 0..8
Payloads == {0, 1}

\* The packets a decoded message holds: commands, a heartbeat reply with
\* popularity 7, the reply to the authentication.
DispPackets ==
    {CmdPacket(jsonBody(c, p)) : c \in CmdCodes, p \in Payloads}
        \cup {CmdPacket(b) : b \in Unparseable}
        \cup {[Protocol |-> ProtoSpecial, OpType |-> OpHeartbeatReply, Sequence |-> 0,
               Body |-> PutUint32(7)],
              [Protocol |-> ProtoSpecial, OpType |-> OpCertificateResp, Sequence |-> 0,
               Body |-> <<>>]}

\* rc.dispatch(rc.realRoomID, pkt) for one packet of room r.
DispatchOne(r, pkt) ==
    /\ panicked = "none"
    /\ \A ch \in ChanSet \ {1} : chanBuf[ch] = <<>>
    /\ SetDisp(dispatchPacket([Disp EXCEPT !.log = <<>>], getRoomInfo(r), pkt))
    /\ UNCHANGED << subs, nextCh, closed, handlers >>

\* NewClient, Subscribe twice, Start(ctx) with both rooms streaming, and
\* SubCap heartbeat replies published to the first channel.
InitDispatch ==
    /\ parentCtx = 1
    /\ ctxDone = {}
    /\ startPc = "waitCtx"
    /\ roomIDs = <<1, 2>>
    /\ rooms = [r \in RoomSet |-> IF r <= 2 THEN [ok |-> TRUE, cancel |-> r] ELSE NoRoom]
    /\ tasks = [t \in 1..MaxTasks |->
                  IF t <= 2 THEN [NewTask(t, 1) EXCEPT !.pc = "streaming"] ELSE NoTask]
    /\ wg = 2
    /\ adder = <<IdleAdder>>
    /\ shutdown = {}
    /\ startResult = "none"
    /\ subs = <<1, 2>>
    /\ nextCh = 2
    /\ closed = {}
    /\ chanBuf = << [i \in 1..SubCap |-> Filler], <<>> >>
    /\ handlers = [l \in HandlerLists |-> 0]
    /\ log = <<>>
    /\ panicked = "none"
    /\ arch = "amd64"
    /\ NewConn
    /\ wire = <<>>
    /\ InitExt

NextDispatch ==
    \/ \E l \in HandlerLists :
          Register(l) /\ UNCHANGED << clientVars, connVars, readVars, extVars >>
    \/ \E r \in 1..2, pkt \in DispPackets :
          DispatchOne(r, pkt) /\ UNCHANGED << clientVars, connVars, readVars, extVars >>
    \/ \E ch \in ChanSet \ {1} :
          Receive(ch) /\ UNCHANGED << clientVars, connVars, extVars >>

SpecDispatch == InitDispatch /\ [][NextDispatch]_vars

(***************************************************************************)
(* client.go: c.mu, the sync.RWMutex every dispatch takes for reading      *)
(* (three times for a command packet: around the raw callbacks, around the *)
(* typed callbacks, inside publishEvent) and every registration method     *)
(* takes for writing.  A sync.RWMutex prefers writers: once a goroutine    *)
(* has called Lock, a call of RLock waits until that writer has acquired   *)
(* and released the lock, and the writer waits for the readers that were   *)
(* already inside.  Only the order of the lock operations is kept here:    *)
(* what the dispatch reads and publishes is in SpecDispatch.               *)
(* dPc[r]: "idle", "rawWait", "rawCb", "typedCall", "typedWait",           *)
(* "typedCb", "pubCall", "pubWait", "publish".                             *)
(* regPc[g]: "idle", "queued" (Lock called, another writer is ahead),      *)
(* "pending" (waits for the readers inside), "locked".                     *)
(* A callback that calls a registration method on the client is inside     *)
(* c.mu.Lock() with the read lock of its dispatch held: dPc[r] = "cbLock". *)
(***************************************************************************)
Registrars == 1..MaxRegistrars

\* The dispatches holding the lock for reading.
Readers == {r \in RoomSet : dPc[r] \in {"rawCb", "typedCb", "publish", "cbLock"}}

\* A writer holds the lock or waits for the readers inside to leave.
WriterIn ==
    \/ \E g \in Registrars : regPc[g] \in {"pending", "locked"}
    \/ \E r \in RoomSet : dPc[r] = "cbLock"

\* c.mu.RLock() of room r's dispatch.
RLock(r, from, wait, to) ==
    /\ dPc[r] = from
    /\ dPc' = [dPc EXCEPT ![r] = IF WriterIn THEN wait ELSE to]
    /\ UNCHANGED << regPc, handlers >>

\* c.mu.RUnlock() of room r's dispatch.
RUnlock(r, from, to) ==
    /\ dPc[r] = from
    /\ dPc' = [dPc EXCEPT ![r] = to]
    /\ UNCHANGED << regPc, handlers >>

\* dispatchCommand: parseCommandPacket, extractCMD, c.mu.RLock()
DispRawLock(r) == tasks[r].pc = "streaming" /\ RLock(r, "idle", "rawWait", "rawCb")

\* for _, fn := range c.onRaw { fn(cmd, body) }; c.mu.RUnlock(); then the
\* typed callbacks (event != nil) or publishEvent at once (event == nil).
DispRawDone(r, recognised) ==
    RUnlock(r, "rawCb", IF recognised THEN "typedCall" ELSE "pubCall")

DispTypedLock(r) == RLock(r, "typedCall", "typedWait", "typedCb")

\* the typed callbacks have returned; c.mu.RUnlock()
DispTypedDone(r) == RUnlock(r, "typedCb", "pubCall")

\* publishEvent: c.mu.RLock()
DispPubLock(r) == RLock(r, "pubCall", "pubWait", "publish")

\* publishEvent: the sends are done; defer c.mu.RUnlock()
DispPubDone(r) == RUnlock(r, "publish", "idle")

\* OnDanmaku(fn) called by goroutine g: c.mu.Lock()
RegCall(g) ==
    /\ regPc[g] = "idle"
    /\ handlers["onDanmaku"] + Cardinality({h \in Registrars : regPc[h] # "idle"})
          < MaxCallbacks
    /\ regPc' = [regPc EXCEPT ![g] = "queued"]
    /\ UNCHANGED << dPc, handlers >>

\* Lock: the writers' mutex is g's; from now on RLock waits.
RegPending(g) ==
    /\ regPc[g] = "queued"
    /\ ~WriterIn
    /\ regPc' = [regPc EXCEPT ![g] = "pending"]
    /\ UNCHANGED << dPc, handlers >>

\* Lock returns: the last reader inside has left.
RegLocked(g) ==
    /\ regPc[g] = "pending"
    /\ Readers = {}
    /\ regPc' = [regPc EXCEPT ![g] = "locked"]
    /\ UNCHANGED << dPc, handlers >>

\* c.onDanmaku = append(c.onDanmaku, fn); c.mu.Unlock(): the readers that
\* waited are let in.
RegUnlock(g) ==
    /\ regPc[g] = "locked"
    /\ handlers' = [handlers EXCEPT !["onDanmaku"] = @ + 1]
    /\ regPc' = [regPc EXCEPT ![g] = "idle"]
    /\ dPc' = [r \in RoomSet |->
                 CASE dPc[r] = "rawWait" -> "rawCb"
                   [] dPc[r] = "typedWait" -> "typedCb"
                   [] dPc[r] = "pubWait" -> "publish"
                   [] OTHER -> dPc[r]]

muVars == << dPc, regPc, handlers >>

\* Everything but c.mu, the positions and the callback lists.
muRest == << clientVars, connVars, readVars, sendVars, splitVars, codecVars, addVars,
             writeVars, cycleVars,
             subs, nextCh, closed, chanBuf, log, panicked >>

InitMutex == InitDispatch

NextMutex ==
    \/ \E r \in RoomSet : DispRawLock(r) /\ UNCHANGED muRest
    \/ \E r \in RoomSet, k \in BOOLEAN : DispRawDone(r, k) /\ UNCHANGED muRest
    \/ \E r \in RoomSet : DispTypedLock(r) /\ UNCHANGED muRest
    \/ \E r \in RoomSet : DispTypedDone(r) /\ UNCHANGED muRest
    \/ \E r \in RoomSet : DispPubLock(r) /\ UNCHANGED muRest
    \/ \E r \in RoomSet : DispPubDone(r) /\ UNCHANGED muRest
    \/ \E g \in Registrars : RegCall(g) /\ UNCHANGED muRest
    \/ \E g \in Registrars : RegPending(g) /\ UNCHANGED muRest
    \/ \E g \in Registrars : RegLocked(g) /\ UNCHANGED muRest
    \/ \E g \in Registrars : RegUnlock(g) /\ UNCHANGED muRest

SpecMutex == InitMutex /\ [][NextMutex]_vars

(***************************************************************************)
(* client.go: c.mu when a callback itself registers a callback.  The steps *)
(* are those of SpecMutex, and a raw or typed callback running inside a    *)
(* dispatch may call OnDanmaku (or any other registration method, or       *)
(* Subscribe): all of them begin with c.mu.Lock().                         *)
(***************************************************************************)
\* fn(...) calls c.OnDanmaku(...): c.mu.Lock() on the goroutine of room r's
\* dispatch, which holds c.mu.RLock().  Lock returns when no reader is inside.
CbLock(r) ==
    /\ dPc[r] \in {"rawCb", "typedCb"}
    /\ dPc' = [dPc EXCEPT ![r] = "cbLock"]
    /\ UNCHANGED << regPc, handlers >>

\* The steps of the dispatches and of the registration calls.
MuStep ==
    \/ \E r \in RoomSet : DispRawLock(r)
    \/ \E r \in RoomSet, k \in BOOLEAN : DispRawDone(r, k)
    \/ \E r \in RoomSet : DispTypedLock(r)
    \/ \E r \in RoomSet : DispTypedDone(r)
    \/ \E r \in RoomSet : DispPubLock(r)
    \/ \E r \in RoomSet : DispPubDone(r)
    \/ \E g \in Registrars : RegCall(g)
    \/ \E g \in Registrars : RegPending(g)
    \/ \E g \in Registrars : RegLocked(g)
    \/ \E g \in Registrars : RegUnlock(g)
    \/ \E r \in RoomSet : CbLock(r)

InitReentrant == InitDispatch

NextReentrant ==
    \/ NextMutex
    \/ \E r \in RoomSet : CbLock(r) /\ UNCHANGED muRest

SpecReentrant == InitReentrant /\ [][NextReentrant]_vars

(***************************************************************************)
(* sender.go: splitMessage.  A Go string is a sequence of bytes;           *)
(* []rune(msg) decodes it as UTF-8, every byte that does not start a valid *)
(* encoding becoming U+FFFD, and string(runes) encodes the runes again.    *)
(***************************************************************************)
RuneError == 65533

IsCont(b) == b >= 128 /\ b <= 191

\* The number of bytes of the encoding that starts b, 0 if none does.
EncodingAt(b) ==
    IF b = <<>> THEN 0
    ELSE LET b0 == b[1] IN
         CASE b0 < 128 -> 1
           [] b0 >= 194 /\ b0 <= 223 ->
                IF Len(b) >= 2 /\ IsCont(b[2]) THEN 2 ELSE 0
           [] b0 >= 224 /\ b0 <= 239 ->
                IF /\ Len(b) >= 3 /\ IsCont(b[2]) /\ IsCont(b[3])
                   /\ (b0 = 224 => b[2] >= 160)
                   /\ (b0 = 237 => b[2] <= 159)
                THEN 3 ELSE 0
           [] b0 >= 240 /\ b0 <= 244 ->
                IF /\ Len(b) >= 4 /\ IsCont(b[2]) /\ IsCont(b[3]) /\ IsCont(b[4])
                   /\ (b0 = 240 => b[2] >= 144)
                   /\ (b0 = 244 => b[2] <= 143)
                THEN 4 ELSE 0
           [] OTHER -> 0

\* utf8.DecodeRuneInString: the first rune of b and its width.
DecodeRune(b) ==
    LET n == EncodingAt(b) IN
    CASE n = 1 -> [r |-> b[1], size |-> 1]
      [] n = 2 -> [r |-> (b[1] - 192) * 64 + (b[2] - 128), size |-> 2]
      [] n = 3 -> [r |-> (b[1] - 224) * 4096 + (b[2] - 128) * 64 + (b[3] - 128),
                   size |-> 3]
      [] n = 4 -> [r |-> (b[1] - 240) * 262144 + (b[2] - 128) * 4096
                            + (b[3] - 128) * 64 + (b[4] - 128),
                   size |-> 4]
      [] OTHER -> [r |-> RuneError, size |-> 1]

\* []rune(s)
RECURSIVE Runes(_)
Runes(b) ==
    IF b = <<>> THEN <<>>
    ELSE LET d == DecodeRune(b) IN <<d.r>> \o Runes(SubSeq(b, d.size + 1, Len(b)))

\* utf8.AppendRune: the encoding of one rune.
EncodeRune(r) ==
    CASE r < 0 \/ r > 1114111 \/ (r >= 55296 /\ r <= 57343) -> <<239, 191, 189>>
      [] r < 128 -> <<r>>
      [] r < 2048 -> <<192 + (r \div 64), 128 + (r % 64)>>
      [] r < 65536 ->
            <<224 + (r \div 4096), 128 + ((r \div 64) % 64), 128 + (r % 64)>>
      [] OTHER -> <<240 + (r \div 262144), 128 + ((r \div 4096) % 64),
                    128 + ((r \div 64) % 64), 128 + (r % 64)>>

\* string(runes)
RECURSIVE String(_)
String(rs) == IF rs = <<>> THEN <<>> ELSE EncodeRune(Head(rs)) \o String(Tail(rs))

\* for len(runes) > 0 { end := min(maxLen, len(runes)); chunks = append(chunks,
\* string(runes[:end])); runes = runes[end:] }
RECURSIVE splitLoop(_, _)
splitLoop(runes, n) ==
    IF runes = <<>> THEN <<>>
    ELSE LET end == IF n > Len(runes) THEN Len(runes) ELSE n
         IN  <<String(SubSeq(runes, 1, end))>>
                 \o splitLoop(SubSeq(runes, end + 1, Len(runes)), n)

\* splitMessage cutting the bytes of the message, not its runes.
RECURSIVE splitMessageBytes(_, _)
splitMessageBytes(m, n) ==
    IF Len(m) <= n THEN <<m>>
    ELSE <<SubSeq(m, 1, n)>> \o splitMessageBytes(SubSeq(m, n + 1, Len(m)), n)

splitMessage(m, n) ==
    LET runes == Runes(m) IN
    IF Len(runes) <= n THEN <<m>> ELSE splitLoop(runes, n)

\* The bytes of the messages: 'A', and bytes of which "é" (195 169), "中"
\* (228 184 173) and every invalid sequence up to MaxMsgBytes are made.
MsgBytes == {65, 195, 169, 228, 184}

RECURSIVE ByteSeqs(_)
ByteSeqs(n) ==
    IF n = 0 THEN {<<>>}
    ELSE LET shorter == ByteSeqs(n - 1) IN
         shorter \cup {Append(b, x) : b \in {y \in shorter : Len(y) = n - 1}, x \in MsgBytes}

SplitCall ==
    /\ ~chunks.done
    /\ chunks' = [done |-> TRUE, val |-> splitMessage(splitMsg, maxLen)]
    /\ UNCHANGED << splitMsg, maxLen, loopPc, loopRunes >>

InitSplit ==
    /\ InitClient
    /\ roomIDs = <<>>
    /\ arch = "amd64"
    /\ NewConn
    /\ wire = <<>>
    /\ NewMu
    /\ cookie = BothCookies
    /\ NoSends
    /\ splitMsg \in ByteSeqs(MaxMsgBytes)
    /\ maxLen \in 1..MaxChunkLen
    /\ chunks = [done |-> FALSE, val |-> <<>>]
    /\ loopPc = "none"
    /\ loopRunes = <<>>
    /\ NoCodec
    /\ NoAdds
    /\ NoWrites
    /\ NoCycle

NextSplit ==
    SplitCall /\ UNCHANGED << clientVars, dispVars, connVars, readVars, lockVars, sendVars,
                              codecVars, addVars, writeVars, cycleVars >>

SpecSplit == InitSplit /\ [][NextSplit]_vars

(***************************************************************************)
(* sender.go: splitMessage taken step by step, for every maxLength that    *)
(* WithMaxLength accepts (it stores any int), 0 and negative ones          *)
(* included.  loopPc: "call", "loop" (at the test of the for loop), "done" *)
(* (returned), "panic" (runes[:end] with a negative end).  The model stops *)
(* a loop after MaxLoopIter iterations.                                    *)
(***************************************************************************)
\* runes := []rune(msg); if len(runes) <= maxLen { return []string{msg} }
LoopEnter ==
    /\ loopPc = "call"
    /\ LET rs == Runes(splitMsg) IN
       IF Len(rs) <= maxLen
       THEN /\ chunks' = [done |-> TRUE, val |-> <<splitMsg>>]
            /\ loopPc' = "done"
            /\ UNCHANGED loopRunes
       ELSE /\ loopPc' = "loop"
            /\ loopRunes' = rs
            /\ UNCHANGED chunks
    /\ UNCHANGED << splitMsg, maxLen >>

\* for len(runes) > 0 { end := maxLen; if end > len(runes) { end = len(runes) };
\* chunks = append(chunks, string(runes[:end])); runes = runes[end:] }
LoopIter ==
    /\ loopPc = "loop"
    /\ loopRunes # <<>>
    /\ Len(chunks.val) < MaxLoopIter
    /\ LET end == IF maxLen > Len(loopRunes) THEN Len(loopRunes) ELSE maxLen IN
       IF end < 0
       THEN loopPc' = "panic" /\ UNCHANGED << chunks, loopRunes >>
       ELSE /\ chunks' = [chunks EXCEPT !.val = Append(@, String(SubSeq(loopRunes, 1, end)))]
            /\ loopRunes' = SubSeq(loopRunes, end + 1, Len(loopRunes))
            /\ UNCHANGED loopPc
    /\ UNCHANGED << splitMsg, maxLen >>

\* the loop ends: return chunks
LoopExit ==
    /\ loopPc = "loop"
    /\ loopRunes = <<>>
    /\ chunks' = [chunks EXCEPT !.done = TRUE]
    /\ loopPc' = "done"
    /\ UNCHANGED << splitMsg, maxLen, loopRunes >>

InitLoop ==
    /\ InitClient
    /\ roomIDs = <<>>
    /\ arch = "amd64"
    /\ NewConn
    /\ wire = <<>>
    /\ NewMu
    /\ cookie = BothCookies
    /\ NoSends
    /\ splitMsg \in ByteSeqs(MaxLoopBytes)
    /\ maxLen \in (-MaxNegLen)..MaxLoopLen
    /\ chunks = [done |-> FALSE, val |-> <<>>]
    /\ loopPc = "call"
    /\ loopRunes = <<>>
    /\ NoCodec
    /\ NoAdds
    /\ NoWrites
    /\ NoCycle

loopRest == << clientVars, dispVars, connVars, readVars, lockVars, sendVars,
              codecVars, addVars, writeVars, cycleVars >>

NextLoop ==
    \/ LoopEnter /\ UNCHANGED loopRest
    \/ LoopIter /\ UNCHANGED loopRest
    \/ LoopExit /\ UNCHANGED loopRest

SpecLoop == InitLoop /\ [][NextLoop]_vars

(***************************************************************************)
(* sender.go: one Sender and the goroutines calling Send on it.  Time is a *)
(* clock of ticks that every time.Now() reads; a timer fires at its time   *)
(* or later.  callers[c].pc: "idle", "wait" (about to call waitCooldown),  *)
(* "sleep" (in its select), "send" (about to call sendOne), "inflight"     *)
(* (the HTTP request is out), "done" (SendWithMode has returned err).      *)
(***************************************************************************)
Callers == 1..MaxCallers

\* The messages sent: "A", a single chunk, and "AB..." of one character
\* more than a chunk holds, two chunks.
SendMsgs == {[i \in 1..n |-> 64 + i] : n \in {1, SenderMaxLength + 1}}

NoErr == [kind |-> "none", chunk |-> 0]

\* s.lastSend.Load(roomID) of a Sender that keeps one time for all rooms.
LoadLatest(m, k) ==
    IF DOMAIN m = {} THEN [ok |-> FALSE, v |-> 0]
    ELSE [ok |-> TRUE, v |-> CHOOSE t \in {m[x] : x \in DOMAIN m} :
                                 \A x \in DOMAIN m : m[x] <= t]

\* s.lastSend.Load(roomID)
Load(m, k) ==
    IF k \in DOMAIN m THEN [ok |-> TRUE, v |-> m[k]] ELSE [ok |-> FALSE, v |-> 0]

\* SendWithMode going on with the next chunk after a failed one and
\* returning the error at the end.
afterChunkContinue(cl, ok) ==
    LET e == IF ok THEN cl.err ELSE [kind |-> "chunk", chunk |-> cl.i] IN
    IF cl.i = Len(cl.chunks)
    THEN [cl EXCEPT !.pc = "done", !.err = e]
    ELSE [cl EXCEPT !.pc = "wait", !.i = @ + 1, !.err = e]

\* SendWithMode after sendOne has returned for chunk i: the error wrapped as
\* "chunk i/n", or the next chunk, or nil after the last.
afterChunk(cl, ok) ==
    IF ~ok THEN [cl EXCEPT !.pc = "done", !.err = [kind |-> "chunk", chunk |-> cl.i]]
    ELSE IF cl.i = Len(cl.chunks)
         THEN [cl EXCEPT !.pc = "done"]
         ELSE [cl EXCEPT !.pc = "wait", !.i = @ + 1]

\* The cookie check of a Sender that refuses only when both are empty.
cookieRequiredBoth(cfg) == ~cfg.sessdata /\ ~cfg.biliJCT

\* s.config.sessdata == "" || s.config.biliJCT == ""
cookieRequired(cfg) == ~cfg.sessdata \/ ~cfg.biliJCT

\* s.Send(ctx, r, m) called by c: the cookie check, splitMessage.
SendCall(c, r, m) ==
    /\ callers[c].pc = "idle"
    /\ callers' = [callers EXCEPT ![c] =
          IF cookieRequired(cookie)
          THEN [IdleCaller EXCEPT !.pc = "done", !.room = r,
                                  !.err = [kind |-> "cookie required", chunk |-> 0]]
          ELSE [IdleCaller EXCEPT !.pc = "wait", !.room = r, !.i = 1,
                                  !.chunks = splitMessage(m, SenderMaxLength)]]
    /\ UNCHANGED << cookie, now, lastSend, lastReq >>

\* waitCooldown up to its select: now := time.Now(); Load; wait := cooldown -
\* now.Sub(last); if wait > 0 { select ... }
WaitCooldown(c) ==
    /\ callers[c].pc = "wait"
    /\ LET last == Load(lastSend, callers[c].room)
           wait == IF last.ok THEN Cooldown - (now - last.v) ELSE 0
       IN  callers' = [callers EXCEPT ![c] =
              IF wait > 0 THEN [@ EXCEPT !.pc = "sleep", !.wake = now + wait]
              ELSE [@ EXCEPT !.pc = "send"]]
    /\ UNCHANGED << cookie, now, lastSend, lastReq >>

\* case <-time.After(wait):
TimerFires(c) ==
    /\ callers[c].pc = "sleep"
    /\ now >= callers[c].wake
    /\ callers' = [callers EXCEPT ![c].pc = "send"]
    /\ UNCHANGED << cookie, now, lastSend, lastReq >>

\* A waitCooldown that looks at ctx only once the timer has fired.
SleepCancelledAfterWake(c) ==
    /\ callers[c].pc = "sleep"
    /\ callers[c].cancelled
    /\ now >= callers[c].wake
    /\ callers' = [callers EXCEPT ![c].pc = "done",
                                  ![c].err = [kind |-> "context canceled", chunk |-> 0]]
    /\ UNCHANGED << cookie, now, lastSend, lastReq >>

\* case <-ctx.Done(): return ctx.Err()
SleepCancelled(c) ==
    /\ callers[c].pc = "sleep"
    /\ callers[c].cancelled
    /\ callers' = [callers EXCEPT ![c].pc = "done",
                                  ![c].err = [kind |-> "context canceled", chunk |-> 0]]
    /\ UNCHANGED << cookie, now, lastSend, lastReq >>

\* sendOne: s.httpClient.Do(req) sends the request.
SendRequest(c) ==
    /\ callers[c].pc = "send"
    /\ ~callers[c].cancelled
    /\ callers' = [callers EXCEPT ![c].pc = "inflight",
                                  ![c].out = Append(@, callers[c].chunks[callers[c].i])]
    /\ lastReq' = Store(lastReq, callers[c].room, now)
    /\ UNCHANGED << cookie, now, lastSend >>

\* sendOne with ctx done: Do returns the context's error, nothing is sent.
SendAborted(c) ==
    /\ callers[c].pc = "send"
    /\ callers[c].cancelled
    /\ callers' = [callers EXCEPT ![c] = afterChunk(@, FALSE)]
    /\ UNCHANGED << cookie, now, lastSend, lastReq >>

\* sendOne after the request: "failed" is an error of Do, of reading or of
\* parsing the response (returned before lastSend.Store); "rejected" is a
\* response with code != 0, "ok" one with code 0 (both after the Store).
SendResponse(c, outcome) ==
    /\ callers[c].pc = "inflight"
    /\ lastSend' = IF outcome = "failed" THEN lastSend
                   ELSE Store(lastSend, callers[c].room, now)
    /\ callers' = [callers EXCEPT ![c] = afterChunk(@, outcome = "ok")]
    /\ UNCHANGED << cookie, now, lastReq >>

\* The caller's ctx is cancelled.
CancelSend(c) ==
    /\ callers[c].pc \notin {"idle", "done"}
    /\ ~callers[c].cancelled
    /\ callers' = [callers EXCEPT ![c].cancelled = TRUE]
    /\ UNCHANGED << cookie, now, lastSend, lastReq >>

Tick ==
    /\ now < MaxTime
    /\ now' = now + 1
    /\ UNCHANGED << cookie, lastSend, callers, lastReq >>

InitSender ==
    /\ InitClient
    /\ roomIDs = <<>>
    /\ arch = "amd64"
    /\ NewConn
    /\ wire = <<>>
    /\ NewMu
    /\ cookie \in [sessdata : BOOLEAN, biliJCT : BOOLEAN]
    /\ NoSends
    /\ NoSplit
    /\ NoCodec
    /\ NoAdds
    /\ NoWrites
    /\ NoCycle

senderRest == << clientVars, dispVars, connVars, readVars, lockVars, splitVars,
                codecVars, addVars, writeVars, cycleVars >>

NextSender ==
    \/ \E c \in Callers, r \in RoomSet, m \in SendMsgs :
          SendCall(c, r, m) /\ UNCHANGED senderRest
    \/ \E c \in Callers : WaitCooldown(c) /\ UNCHANGED senderRest
    \/ \E c \in Callers : TimerFires(c) /\ UNCHANGED senderRest
    \/ \E c \in Callers : SleepCancelled(c) /\ UNCHANGED senderRest
    \/ \E c \in Callers : SendRequest(c) /\ UNCHANGED senderRest
    \/ \E c \in Callers : SendAborted(c) /\ UNCHANGED senderRest
    \/ \E c \in Callers, o \in {"ok", "rejected", "failed"} :
          SendResponse(c, o) /\ UNCHANGED senderRest
    \/ \E c \in Callers : CancelSend(c) /\ UNCHANGED senderRest
    \/ Tick /\ UNCHANGED senderRest

SpecSender == InitSender /\ [][NextSender]_vars

(***************************************************************************)
(* packet.go: decodePackets by itself, applied to buffers made of up to    *)
(* MaxFrames frames.  A frame is described by [kind, p, inner, size]:      *)
(*   "plain"       the encoding of the packet p                            *)
(*   "zlib", "brotli"                                                       *)
(*                 an envelope whose payload is the compressed encoding of *)
(*                 the frames inner                                        *)
(*   "badzlib", "badbrotli"                                                 *)
(*                 an envelope whose payload does not decompress           *)
(*   "size"        the encoding of p with the bytes size in the place of   *)
(*                 its total size                                          *)
(***************************************************************************)
NoPacket == [Protocol |-> 0, OpType |-> 0, Sequence |-> 0, Body |-> <<>>]

PlainFrame(p) == [kind |-> "plain", p |-> p, inner |-> <<>>, size |-> <<0, 0, 0, 0>>]

Envelope(kind, inner) ==
    [kind |-> kind, p |-> NoPacket, inner |-> inner, size |-> <<0, 0, 0, 0>>]

SizeFrame(p, size) == [kind |-> "size", p |-> p, inner |-> <<>>, size |-> size]

\* The packets of plain frames: both uncompressed protocol versions, an
\* empty body, and an operation and a sequence with four different bytes.
CodecPackets ==
    { [Protocol |-> pr, OpType |-> x.op, Sequence |-> x.sq, Body |-> x.body] :
        pr \in {ProtoCommand, ProtoSpecial},
        x \in { [op |-> OpCommand, sq |-> 0, body |-> <<>>],
                [op |-> 16909060, sq |-> 2147483647, body |-> jsonBody(1, 1)] } }

\* The frames found inside an envelope: plain ones and an envelope again.
InnerFrames ==
    { PlainFrame(p) : p \in {q \in CodecPackets : q.Protocol = ProtoCommand} }
        \cup { Envelope("zlib", << PlainFrame(CHOOSE q \in CodecPackets :
                                      q.Protocol = ProtoSpecial /\ q.Body = <<>>) >>) }

\* Declared total sizes that no buffer of the model has: 0, 15, 65535, 2^31.
BadSizes == { <<0, 0, 0, 0>>, <<0, 0, 0, 15>>, <<0, 0, 255, 255>>, <<128, 0, 0, 0>> }

TopFrames ==
    { PlainFrame(p) : p \in CodecPackets }
        \cup { Envelope(k, in) : k \in {"zlib", "brotli"},
                                 in \in SeqsUpTo(InnerFrames, MaxInner) }
        \cup { Envelope(k, << PlainFrame(NoPacket) >>) : k \in {"badzlib", "badbrotli"} }
        \cup { SizeFrame(NoPacket, sz) : sz \in BadSizes }

\* The bytes of a frame and of a sequence of frames, as a server writes them.
RECURSIVE EncodeFrame(_), EncodeFrames(_)
EncodeFrame(fr) ==
    CASE fr.kind = "plain" -> encodePacket(fr.p)
      [] fr.kind = "zlib" ->
            encodePacket([Protocol |-> ProtoCommandZlib, OpType |-> OpCommand,
                          Sequence |-> 0, Body |-> compressZlib(EncodeFrames(fr.inner))])
      [] fr.kind = "brotli" ->
            encodePacket([Protocol |-> ProtoCommandBrotli, OpType |-> OpCommand,
                          Sequence |-> 0, Body |-> compressBrotli(EncodeFrames(fr.inner))])
      [] fr.kind = "badzlib" ->
            encodePacket([Protocol |-> ProtoCommandZlib, OpType |-> OpCommand,
                          Sequence |-> 0, Body |-> <<0>> \o EncodeFrames(fr.inner)])
      [] fr.kind = "badbrotli" ->
            encodePacket([Protocol |-> ProtoCommandBrotli, OpType |-> OpCommand,
                          Sequence |-> 0, Body |-> <<0>> \o EncodeFrames(fr.inner)])
      [] fr.kind = "size" ->
            LET e == encodePacket(fr.p) IN fr.size \o SubSeq(e, 5, Len(e))

EncodeFrames(frs) ==
    IF frs = <<>> THEN <<>> ELSE EncodeFrame(Head(frs)) \o EncodeFrames(Tail(frs))

\* packets, err := decodePackets(message)
Decode ==
    /\ ~decoded.done
    /\ decoded' = [done |-> TRUE, val |-> decodePackets(buf, intSize)]
    /\ UNCHANGED << intSize, frames, buf >>

InitCodec ==
    /\ InitClient
    /\ roomIDs = <<>>
    /\ arch = "amd64"
    /\ NewConn
    /\ wire = <<>>
    /\ NewMu
    /\ cookie = BothCookies
    /\ NoSends
    /\ NoSplit
    /\ intSize \in {32, 64}
    /\ frames \in SeqsUpTo(TopFrames, MaxFrames) \ {<<>>}
    /\ buf = EncodeFrames(frames)
    /\ decoded = [done |-> FALSE, val |-> DecodeErr]
    /\ NoAdds
    /\ NoWrites
    /\ NoCycle

NextCodec ==
    Decode /\ UNCHANGED << clientVars, dispVars, connVars, readVars, lockVars, sendVars,
                           splitVars, addVars, writeVars, cycleVars >>

SpecCodec == InitCodec /\ [][NextCodec]_vars

(***************************************************************************)
(* client.go: AddRoom called by MaxAdders goroutines at the same time,     *)
(* either on a Client whose Start was not called, or on one whose Start    *)
(* has started the goroutine of its configured room 2 and waits for ctx.   *)
(* Nobody calls RemoveRoom or cancels ctx here.                            *)
(***************************************************************************)
\* AddRoom returns nil after `go func() { ... c.startRoom(ctx, roomID) }()`.
AddRoomReturnsNil(a) ==
    /\ AddRoomSpawn(a)
    /\ added' = [added EXCEPT ![adder[a].room] = @ + 1]

InitAdd ==
    /\ parentCtx \in {0, 1}
    /\ ctxDone = {}
    /\ startPc = IF parentCtx = 0 THEN "idle" ELSE "waitCtx"
    /\ roomIDs = IF parentCtx = 0 THEN <<>> ELSE <<2>>
    /\ rooms = [r \in RoomSet |-> NoRoom]
    /\ tasks = [t \in 1..(MaxTasks + 1) |->
                  IF t = 1 /\ parentCtx = 1 THEN NewTask(2, 1) ELSE NoTask]
    /\ wg = parentCtx
    /\ adder = [a \in 1..MaxAdders |-> IdleAdder]
    /\ shutdown = {}
    /\ startResult = "none"
    /\ subs = <<>>
    /\ nextCh = 0
    /\ closed = {}
    /\ chanBuf = <<>>
    /\ handlers = [l \in HandlerLists |-> 0]
    /\ log = <<>>
    /\ panicked = "none"
    /\ arch = "amd64"
    /\ NewConn
    /\ wire = <<>>
    /\ InitExt

addRest == << dispVars, connVars, readVars, lockVars, sendVars, splitVars, codecVars,
             writeVars, cycleVars >>

NextAdd ==
    \/ \E a \in AdderSet, r \in RoomSet :
          AddRoomCall(a, r) /\ UNCHANGED << addRest, added >>
    \/ \E a \in AdderSet : AddRoomConfig(a) /\ UNCHANGED << addRest, added >>
    \/ \E a \in AdderSet : AddRoomReserve(a) /\ UNCHANGED << addRest, added >>
    \/ \E a \in AdderSet : AddRoomReturnsNil(a) /\ UNCHANGED addRest
    \/ \E t \in TaskSet : TaskRegister(t) /\ UNCHANGED << addRest, added >>
    \/ \E t \in TaskSet : TaskConnect(t) /\ UNCHANGED << addRest, added >>
    \/ \E t \in TaskSet : TaskDisconnect(t) /\ UNCHANGED << addRest, added >>

SpecAdd == InitAdd /\ [][NextAdd]_vars

(***************************************************************************)
(* conn.go: the writers of one roomConn's sockets.  The goroutine of run   *)
(* writes the auth packet of every cycle, the heartbeat goroutine of the   *)
(* cycle writes a heartbeat at every tick, and the heartbeat goroutine of  *)
(* an earlier cycle may still take a tick after its hbCtx was cancelled    *)
(* and its socket closed.  All of them write between rc.wsMu.Lock() and    *)
(* rc.wsMu.Unlock().  Here the auth write of ConnAuth and the heartbeat    *)
(* write of HbTick are split into their steps: rcPc is "authWrite" inside  *)
(* ws.WriteMessage and "authOk" / "authErr" when it has returned; a        *)
(* heartbeat goroutine is "waiting" (in its select), "lock" (at            *)
(* rc.wsMu.Lock()), "write" (inside ws.WriteMessage), "wrote" / "failed"   *)
(* (WriteMessage has returned) or "none".                                  *)
(***************************************************************************)
\* A Lock that does not wait for the mutex to be free.
wsMuLockNoWait == wsMu' = TRUE

\* rc.wsMu.Lock()
wsMuLock == ~wsMu /\ wsMu' = TRUE

\* rc.wsMu.Unlock()
wsMuUnlock == wsMu' = FALSE

\* The heartbeat goroutines after a step of connect: its return runs the
\* deferred hbCancel() and ws.Close().
HbsAfterConnect ==
    IF rcPc' = "returned" THEN [i \in DOMAIN hbs |-> [hbs[i] EXCEPT !.live = FALSE]]
    ELSE hbs

\* connect: rc.wsMu.Lock() before the auth write
AuthLock ==
    /\ rcPc = "auth"
    /\ wsMuLock
    /\ rcPc' = "authWrite"
    /\ UNCHANGED << arch, rcCtxDone, realRoomID, wssURL, attempt, delay, wsOpen, hbPc,
                    hbLinger, hbSent, streamed, hbs >>

\* connect: err = ws.WriteMessage(websocket.BinaryMessage, authPkt)
AuthWritten(ok) ==
    /\ rcPc = "authWrite"
    /\ ok \/ MayFail
    /\ rcPc' = IF ok THEN "authOk" ELSE "authErr"
    /\ UNCHANGED << arch, rcCtxDone, realRoomID, wssURL, attempt, delay, wsOpen, hbPc,
                    hbLinger, hbSent, streamed, wsMu, hbs >>

\* connect: rc.wsMu.Unlock(); return on err (the deferred ws.Close), else
\* go rc.heartbeatLoop(hbCtx, ws) and the read loop
AuthUnlock ==
    /\ rcPc \in {"authOk", "authErr"}
    /\ wsMuUnlock
    /\ IF rcPc = "authOk"
       THEN /\ \E i \in DOMAIN hbs :
                 /\ hbs[i].pc = "none"
                 /\ \A j \in DOMAIN hbs : hbs[j].pc = "none" => i <= j
                 /\ hbs' = [hbs EXCEPT ![i] = [pc |-> "waiting", live |-> TRUE, n |-> 0]]
            /\ rcPc' = "loop"
            /\ hbPc' = "waiting"
            /\ streamed' = TRUE
            /\ UNCHANGED wsOpen
       ELSE /\ rcPc' = "returned"
            /\ wsOpen' = FALSE
            /\ UNCHANGED << hbPc, streamed, hbs >>
    /\ UNCHANGED << arch, rcCtxDone, realRoomID, wssURL, attempt, delay, hbLinger, hbSent >>

\* heartbeatLoop: case <-ticker.C: hb := buildHeartbeatPacket()
HbTicker(i) ==
    /\ hbs[i].pc = "waiting"
    /\ hbs[i].n < MaxBeats
    /\ hbs' = [hbs EXCEPT ![i].pc = "lock", ![i].n = @ + 1]
    /\ UNCHANGED << connVars, wsMu >>

\* heartbeatLoop: case <-ctx.Done(): return
HbCtxDone(i) ==
    /\ hbs[i].pc = "waiting"
    /\ ~hbs[i].live \/ rcCtxDone
    /\ hbs' = [hbs EXCEPT ![i] = NoHb]
    /\ IF hbs[i].live
       THEN hbPc' = "done" /\ UNCHANGED hbLinger
       ELSE hbLinger' = hbLinger - 1 /\ UNCHANGED hbPc
    /\ UNCHANGED << arch, rcCtxDone, rcPc, realRoomID, wssURL, attempt, delay, wsOpen,
                    hbSent, streamed, wsMu >>

\* heartbeatLoop: rc.wsMu.Lock()
HbLock(i) ==
    /\ hbs[i].pc = "lock"
    /\ wsMuLock
    /\ hbs' = [hbs EXCEPT ![i].pc = "write"]
    /\ UNCHANGED connVars

\* heartbeatLoop: err := ws.WriteMessage(websocket.BinaryMessage, hb); the
\* write on a closed socket fails
HbWritten(i, ok) ==
    /\ hbs[i].pc = "write"
    /\ ok => hbs[i].live
    /\ hbs' = [hbs EXCEPT ![i].pc = IF ok THEN "wrote" ELSE "failed"]
    /\ hbSent' = IF ok THEN hbSent + 1 ELSE hbSent
    /\ UNCHANGED << arch, rcCtxDone, rcPc, realRoomID, wssURL, attempt, delay, wsOpen,
                    hbPc, hbLinger, streamed, wsMu >>

\* heartbeatLoop: rc.wsMu.Unlock(); if err != nil { return }
HbUnlock(i) ==
    /\ hbs[i].pc \in {"wrote", "failed"}
    /\ wsMuUnlock
    /\ hbs' = [hbs EXCEPT ![i] = IF hbs[i].pc = "wrote" THEN [@ EXCEPT !.pc = "waiting"]
                                 ELSE NoHb]
    /\ IF hbs[i].pc = "wrote" THEN UNCHANGED << hbPc, hbLinger >>
       ELSE IF hbs[i].live THEN hbPc' = "done" /\ UNCHANGED hbLinger
       ELSE hbLinger' = hbLinger - 1 /\ UNCHANGED hbPc
    /\ UNCHANGED << arch, rcCtxDone, rcPc, realRoomID, wssURL, attempt, delay, wsOpen,
                    hbSent, streamed >>

InitWrite ==
    /\ InitClient
    /\ roomIDs = <<>>
    /\ arch = "amd64"
    /\ NewConn
    /\ wire = <<>>
    /\ InitExt

writeRest == << clientVars, dispVars, readVars, lockVars, sendVars, splitVars, codecVars,
               addVars, cycleVars >>

NextWrite ==
    \/ RunStart /\ UNCHANGED << writeVars, writeRest >>
    \/ \E ok \in BOOLEAN : ConnResolve(ok) /\ UNCHANGED << writeVars, writeRest >>
    \/ \E ok \in BOOLEAN : ConnEndpoint(ok) /\ UNCHANGED << writeVars, writeRest >>
    \/ \E ok \in BOOLEAN : ConnDial(ok) /\ UNCHANGED << writeVars, writeRest >>
    \/ AuthLock /\ UNCHANGED writeRest
    \/ \E ok \in BOOLEAN : AuthWritten(ok) /\ UNCHANGED writeRest
    \/ AuthUnlock /\ UNCHANGED writeRest
    \/ ConnLoop /\ hbs' = HbsAfterConnect /\ UNCHANGED << wsMu, writeRest >>
    \/ \E ok \in BOOLEAN :
          ReadMessage(ok) /\ hbs' = HbsAfterConnect /\ UNCHANGED << wsMu, writeRest >>
    \/ RunAfterConnect /\ UNCHANGED << writeVars, writeRest >>
    \/ BackoffTimer /\ UNCHANGED << writeVars, writeRest >>
    \/ BackoffCancel /\ UNCHANGED << writeVars, writeRest >>
    \/ RcCancel /\ UNCHANGED << writeVars, writeRest >>
    \/ \E i \in DOMAIN hbs : HbTicker(i) /\ UNCHANGED writeRest
    \/ \E i \in DOMAIN hbs : HbCtxDone(i) /\ UNCHANGED writeRest
    \/ \E i \in DOMAIN hbs : HbLock(i) /\ UNCHANGED writeRest
    \/ \E i \in DOMAIN hbs, ok \in BOOLEAN : HbWritten(i, ok) /\ UNCHANGED writeRest
    \/ \E i \in DOMAIN hbs : HbUnlock(i) /\ UNCHANGED writeRest

SpecWrite == InitWrite /\ [][NextWrite]_vars

(***************************************************************************)
(* conn.go: what one roomConn does on the network, cycle after cycle.  The *)
(* steps are those of SpecConn; resolves records what every call of        *)
(* getRoomInfo returned, token is the token connect got with the endpoint  *)
(* (empty after the fallback to the default server, and when the server    *)
(* sent none), and sent is what was written on the socket of the current   *)
(* cycle.  encoding/json is outside the repository: the body of the auth   *)
(* packet is kept as the map that buildAuthPacket marshals.                *)
(***************************************************************************)
Tokens == {"", "tok"}

\* packet.go: buildAuthPacket
buildAuthPacket(roomID, tok) ==
    [protocol |-> ProtoSpecial, op |-> OpCertificate, seq |-> 1,
     body |-> [uid |-> 0, roomid |-> roomID, key |-> tok,
               protover |-> IF tok = "" THEN 2 ELSE 3]]

\* packet.go: buildHeartbeatPacket
buildHeartbeatPacket ==
    [protocol |-> ProtoSpecial, op |-> OpHeartbeat, seq |-> 1,
     body |-> "[Object object]"]

\* connect: info, err := getRoomInfo(...) when the id is not cached
CycleResolve(ok) ==
    /\ ConnResolve(ok)
    /\ resolves' = IF cached(realRoomID)
                   THEN resolves
                   ELSE Append(resolves, IF rcPc' = "endpoint" THEN realRoomID' ELSE -1)
    /\ UNCHANGED << token, sent >>

\* connect: token = dInfo.Token, or "" with the default server
CycleEndpoint(ok, tok) ==
    /\ ConnEndpoint(ok)
    /\ token' = IF wssURL' = "host" THEN tok ELSE ""
    /\ UNCHANGED << sent, resolves >>

\* connect: a new socket, nothing written on it yet
CycleDial(ok) ==
    /\ ConnDial(ok)
    /\ sent' = <<>>
    /\ UNCHANGED << token, resolves >>

\* connect: ws.WriteMessage(websocket.BinaryMessage, authPkt)
CycleAuth(ok) ==
    /\ ConnAuth(ok)
    /\ sent' = IF ok THEN Append(sent, buildAuthPacket(realRoomID, token)) ELSE sent
    /\ UNCHANGED << token, resolves >>

\* heartbeatLoop: ws.WriteMessage(websocket.BinaryMessage, hb)
CycleHbTick(ok) ==
    /\ HbTick(ok)
    /\ sent' = IF ok THEN Append(sent, buildHeartbeatPacket) ELSE sent
    /\ UNCHANGED << token, resolves >>

InitCycle == InitConn

cycleRest == << clientVars, dispVars, readVars, lockVars, sendVars, splitVars, codecVars,
               addVars, writeVars >>

NextCycle ==
    \/ RunStart /\ UNCHANGED << cycleVars, cycleRest >>
    \/ \E ok \in BOOLEAN : CycleResolve(ok) /\ UNCHANGED cycleRest
    \/ \E ok \in BOOLEAN, tok \in Tokens : CycleEndpoint(ok, tok) /\ UNCHANGED cycleRest
    \/ \E ok \in BOOLEAN : CycleDial(ok) /\ UNCHANGED cycleRest
    \/ \E ok \in BOOLEAN : CycleAuth(ok) /\ UNCHANGED cycleRest
    \/ ConnLoop /\ UNCHANGED << cycleVars, cycleRest >>
    \/ \E ok \in BOOLEAN : ReadMessage(ok) /\ UNCHANGED << cycleVars, cycleRest >>
    \/ RunAfterConnect /\ UNCHANGED << cycleVars, cycleRest >>
    \/ BackoffTimer /\ UNCHANGED << cycleVars, cycleRest >>
    \/ BackoffCancel /\ UNCHANGED << cycleVars, cycleRest >>
    \/ RcCancel /\ UNCHANGED << cycleVars, cycleRest >>
    \/ \E ok \in BOOLEAN : CycleHbTick(ok) /\ UNCHANGED cycleRest
    \/ HbStop /\ UNCHANGED << cycleVars, cycleRest >>
    \/ HbLingerExit /\ UNCHANGED << cycleVars, cycleRest >>

SpecCycle == InitCycle /\ [][NextCycle]_vars

(***************************************************************************)
(* client.go: dispatchPacket over the packets that are not commands:       *)
(* heartbeat replies with bodies of 0, 3, 4 and 5 bytes and replies to the *)
(* authentication, dispatched to the client of SpecDispatch.               *)
(***************************************************************************)
ReplyBodies == {<<>>, <<0, 0, 1>>, <<0, 0, 1, 44>>, <<0, 0, 1, 44, 9>>, <<1, 2, 3, 4>>}

HeartPackets ==
    {[Protocol |-> ProtoSpecial, OpType |-> op, Sequence |-> 1, Body |-> b] :
        op \in {OpHeartbeatReply, OpCertificateResp}, b \in ReplyBodies}

InitHeart == InitDispatch

NextHeart ==
    \/ \E l \in HandlerLists :
          Register(l) /\ UNCHANGED << clientVars, connVars, readVars, extVars >>
    \/ \E r \in 1..2, pkt \in HeartPackets :
          DispatchOne(r, pkt) /\ UNCHANGED << clientVars, connVars, readVars, extVars >>
    \/ \E ch \in ChanSet \ {1} :
          Receive(ch) /\ UNCHANGED << clientVars, connVars, extVars >>

SpecHeart == InitHeart /\ [][NextHeart]_vars

(***************************************************************************)
(* conn.go: the read loop of a roomConn that streams, against a server     *)
(* that sends well-formed and malformed messages, on 32- and 64-bit        *)
(* targets, with the room's context cancelled at any moment.  The client   *)
(* is that of SpecRead with its first channel full and its consumer gone;  *)
(* the log holds what the last message produced, and                       *)
(* frames, buf and decoded hold the last message and what decodePackets    *)
(* made of it.  A panic of decodePackets ends the process.                 *)
(***************************************************************************)
BadFrames ==
    { Envelope(k, << PlainFrame(NoPacket) >>) : k \in {"badzlib", "badbrotli"} }
        \cup { SizeFrame(NoPacket, sz) : sz \in BadSizes }

\* Frames that decode: a DANMU_MSG command, a heartbeat reply, and each of
\* them inside a compressed envelope.
GoodFrames ==
    LET cmd == PlainFrame(CmdPacket(jsonBody(1, 1)))
        hb  == PlainFrame([Protocol |-> ProtoSpecial, OpType |-> OpHeartbeatReply,
                           Sequence |-> 1, Body |-> PutUint32(300)])
    IN  {cmd, hb, Envelope("zlib", <<cmd>>), Envelope("brotli", <<hb>>)}

StreamMsgs == SeqsUpTo(GoodFrames \cup BadFrames, MaxStream) \ {<<>>}

\* read loop: _, message, err := ws.ReadMessage() returns the message the
\* server sent; decodePackets; on err `continue`, else dispatch every packet
StreamRead(fr) ==
    /\ panicked = "none"
    /\ rcPc = "read"
    /\ chanBuf[2] = <<>>
    /\ frames' = fr
    /\ buf' = EncodeFrames(fr)
    /\ LET dec == decodePackets(EncodeFrames(fr), intSize) IN
       /\ decoded' = [done |-> TRUE, val |-> dec]
       /\ IF dec.panic
          THEN /\ panicked' = "slice bounds out of range"
               /\ log' = <<>>
               /\ UNCHANGED << chanBuf, rcPc >>
          ELSE /\ rcPc' = "loop"
               /\ SetDisp(IF dec.ok
                          THEN dispatchAll([Disp EXCEPT !.log = <<>>], realRoomID,
                                           dec.packets)
                          ELSE [Disp EXCEPT !.log = <<>>])
    /\ UNCHANGED << subs, nextCh, closed, handlers, wire, intSize, arch, rcCtxDone,
                    realRoomID, wssURL, attempt, delay, wsOpen, hbPc, hbLinger, hbSent,
                    streamed >>

\* The process goes on only while nothing has panicked.
Running == panicked = "none"

InitStream ==
    /\ parentCtx = 1
    /\ ctxDone = {}
    /\ startPc = "waitCtx"
    /\ roomIDs = <<1>>
    /\ rooms = [r \in RoomSet |-> IF r = 1 THEN [ok |-> TRUE, cancel |-> 1] ELSE NoRoom]
    /\ tasks = [t \in 1..MaxTasks |->
                  IF t = 1 THEN [NewTask(1, 1) EXCEPT !.pc = "streaming"] ELSE NoTask]
    /\ wg = 1
    /\ adder = <<IdleAdder>>
    /\ shutdown = {}
    /\ startResult = "none"
    /\ subs = <<1, 2>>
    /\ nextCh = 2
    /\ closed = {}
    /\ chanBuf = << [i \in 1..SubCap |-> Filler], <<>> >>
    /\ handlers = [l \in HandlerLists |->
                     CASE l = "onRaw" -> 1 [] l = "onDanmaku" -> 2 [] l = "onHeart" -> 1
                       [] OTHER -> 0]
    /\ log = <<>>
    /\ panicked = "none"
    /\ arch = "amd64"
    /\ rcCtxDone = FALSE
    /\ rcPc = "loop"
    /\ realRoomID = getRoomInfo(1)
    /\ wssURL = "host"
    /\ attempt = 0
    /\ delay = Int64(0)
    /\ wsOpen = TRUE
    /\ hbPc = "waiting"
    /\ hbLinger = 0
    /\ hbSent = 0
    /\ streamed = TRUE
    /\ wire = <<>>
    /\ NewMu
    /\ cookie = BothCookies
    /\ NoSends
    /\ NoSplit
    /\ intSize \in {32, 64}
    /\ frames = <<>>
    /\ buf = <<>>
    /\ decoded = [done |-> FALSE, val |-> DecodeErr]
    /\ NoAdds
    /\ NoWrites
    /\ token = "tok"
    /\ sent = << buildAuthPacket(getRoomInfo(1), "tok") >>
    /\ resolves = << getRoomInfo(1) >>

streamRest == << clientVars, lockVars, sendVars, splitVars, addVars, writeVars, cycleVars >>

NextStream ==
    \/ Running /\ ConnLoop
          /\ UNCHANGED << dispVars, readVars, codecVars, streamRest >>
    \/ \E fr \in StreamMsgs : StreamRead(fr) /\ UNCHANGED streamRest
    \/ \E ch \in ChanSet \ {1} :
          Receive(ch) /\ UNCHANGED << connVars, codecVars, streamRest >>
    \/ Running /\ RcCancel
          /\ UNCHANGED << dispVars, readVars, codecVars, streamRest >>
    \/ Running /\ RunAfterConnect
          /\ UNCHANGED << dispVars, readVars, codecVars, streamRest >>
    \/ \E ok \in BOOLEAN :
          Running /\ HbTick(ok) /\ UNCHANGED << dispVars, readVars, codecVars, streamRest >>

SpecStream == InitStream /\ [][NextStream]_vars

(***************************************************************************)
(* Properties of the client lifecycle (specification Spec).                *)
(***************************************************************************)
LiveTasks == {t \in TaskSet : tasks[t].pc # "none"}

TasksOf(r) == {t \in LiveTasks : tasks[t].room = r}

\* C1: no channel is closed twice and no publish sends on a closed channel:
\* in every interleaving of dispatch, Subscribe, AddRoom, RemoveRoom and
\* Start's shutdown the process never panics with "close of closed channel"
\* or "send on closed channel".
C1_NoChannelPanic == panicked = "none"

\* C1 happens: a channel that received an event has been closed by a first
\* Start, and a room of a second Start is streaming.
C1_Witness ==
    /\ closed # {}
    /\ \E i \in DOMAIN log : log[i].fn = "send" /\ log[i].idx \in closed
    /\ parentCtx >= 2
    /\ \E t \in TaskSet : tasks[t].pc = "streaming" /\ tasks[t].ctx = parentCtx

\* C2, as stated: once Start has closed the channels for a context, no room
\* task of that context is running or starting.
C2_NoTaskAfterClose == \A t \in LiveTasks : tasks[t].ctx \notin shutdown

\* C3, as stated: at the moment Start returns, on whichever path, every
\* channel handed out by Subscribe so far is closed.
C3_ClosedWhenStartReturns ==
    [][(startPc # "idle" /\ startPc' = "idle") => (1..nextCh) \subseteq closed']_vars

\* C4, as stated: when RemoveRoom(r) returns for a room that has exactly one
\* supervisor goroutine (started by Start or by an AddRoom(r) that returned
\* nil), the context of that supervisor is done.
C4_RemoveCancels ==
    [][\A r \in RoomSet :
          (RemoveRoom(r) /\ Cardinality(TasksOf(r)) = 1
             /\ \A a \in AdderSet : adder[a].pc = "idle")
              => \A t \in TasksOf(r) : tasks'[t].cancelled \/ tasks'[t].ctx \in ctxDone']_vars

\* C5: RemoveRoom(r) leaves the rooms-map entry, the supervisor state and the
\* cancellation signal of every other room q unchanged.
C5_RemoveFrame ==
    [][\A r \in RoomSet :
          RemoveRoom(r)
              => \A q \in RoomSet \ {r} :
                    /\ rooms'[q] = rooms[q]
                    /\ \A t \in TaskSet : tasks[t].room = q => tasks'[t] = tasks[t]]_vars

\* C5 happens: RemoveRoom has cancelled the supervisor of one room while the
\* registered supervisor of another room keeps streaming uncancelled.
C5_Witness ==
    \E t, u \in TaskSet :
        /\ tasks[t].cancelled
        /\ tasks[u].pc = "streaming"
        /\ ~tasks[u].cancelled
        /\ tasks[u].room # tasks[t].room
        /\ rooms[tasks[u].room] = [ok |-> TRUE, cancel |-> u]

(***************************************************************************)
(* Properties of one roomConn (specifications SpecConn and FairSpecConn).  *)
(***************************************************************************)
\* C6, as stated: a cancelled supervisor that has not yet returned from run
\* can always take its next step by itself, in whatever state the
\* cancellation found it, without the server sending or closing anything.
C6_CancelUnwinds ==
    (rcCtxDone /\ rcPc # "stopped")
        => ENABLED (RunStep /\ UNCHANGED << clientVars, dispVars, readVars, extVars >>)

\* C7: run returns only when its context is cancelled, and after every
\* failed cycle that is not a cancellation a new connection attempt follows
\* (or the context is cancelled meanwhile), whatever the attempt number.
C7_NeverGivesUp ==
    /\ [](rcPc = "stopped" => rcCtxDone)
    /\ (rcPc = "returned" /\ ~rcCtxDone) ~> (rcPc = "resolve" \/ rcCtxDone)

\* C7 happens: after MaxAttempt failed cycles the supervisor, not cancelled,
\* is connecting once more.
C7_Witness == attempt = MaxAttempt /\ rcPc = "resolve" /\ ~rcCtxDone

\* C8, as stated: the backoff that follows a cycle which reached Streaming
\* is computed for attempt 1.
C8_AttemptResets == (rcPc = "backoff" /\ streamed) => attempt = 1

\* C9, as stated: the delay run computes for an attempt is at least
\* baseBackoff and at most maxBackoff.
C9_BackoffInRange ==
    rcPc = "backoff" => ~Gt64(baseBackoff, delay) /\ ~Gt64(delay, maxBackoff)

(***************************************************************************)
(* Properties of one room's read loop (specification SpecRead).            *)
(***************************************************************************)
\* The command number a log entry carries: the raw callback gets the body,
\* a typed callback and a typed event the payload, a raw event the body.
TagOf(e) == IF Len(e.arg) = 5 THEN e.arg[4] ELSE e.arg[1]

\* The consumers: every callback of every list and every channel.
Consumers ==
    UNION {{<<l, i>> : i \in 1..handlers[l]} : l \in HandlerLists}
        \cup {<<"send", ch>> : ch \in ChanSet}

\* What consumer k was given, in the order it was given.
Delivered(k) == SelectSeq(log, LAMBDA e : e.fn = k[1] /\ e.idx = k[2])

\* The place of command number tag in the order of the wire.
WirePos(tag) == CHOOSE i \in DOMAIN wire : wire[i].tag = tag

\* C10: what each callback and each channel of the room is given are command
\* frames of the wire, each once, in the order the server framed them, frames
\* inside a compressed envelope included; a drop leaves a gap, never a swap.
C10_WireOrder ==
    \A k \in Consumers :
        LET d == Delivered(k) IN
        /\ \A i \in DOMAIN d : \E j \in DOMAIN wire : wire[j].tag = TagOf(d[i])
        /\ \A i, j \in DOMAIN d : i < j => WirePos(TagOf(d[i])) < WirePos(TagOf(d[j]))

\* C10 happens: a channel dropped an event and later took another one, and
\* events framed inside a compressed envelope after a plain frame of the same
\* message were delivered to callbacks and channels.
C10_Witness ==
    /\ \E i, j \in DOMAIN log :
          i < j /\ log[i].fn = "drop" /\ log[j].fn = "send" /\ log[i].idx = log[j].idx
    /\ \E i \in DOMAIN wire :
          /\ i > 1
          /\ wire[i].env = "zlib"
          /\ wire[i - 1].env = "plain"
          /\ \E j \in DOMAIN log : log[j].fn = "onDanmaku" /\ TagOf(log[j]) = wire[i].tag
          /\ \E j \in DOMAIN log : log[j].fn = "send" /\ TagOf(log[j]) = wire[i].tag

(***************************************************************************)
(* Properties of the dispatcher (specification SpecDispatch).              *)
(***************************************************************************)
\* The calls, in order, made to the callbacks of list l.
CallsOf(lg, l) == SelectSeq(lg, LAMBDA e : e.fn = l)

\* What was offered to channel ch, in order: sent or dropped.
OffersTo(lg, ch) == SelectSeq(lg, LAMBDA e : e.fn \in {"send", "drop"} /\ e.idx = ch)

TypedLists == HandlerLists \ {"onRaw", "onHeart"}

\* The command name the server wrote into a body.
NameIn(b) == IF b \in Unparseable THEN "" ELSE CmdName(b[2])

CmdBodies == {jsonBody(c, p) : c \in CmdCodes, p \in Payloads} \cup Unparseable

\* The callback list and the event type of each recognised command.
ListOf(c) ==
    CASE c = 1 -> "onDanmaku" [] c = 2 -> "onGift" [] c = 3 -> "onSuper"
      [] c = 4 -> "onGuard" [] c = 5 -> "onLive" [] c = 6 -> "onPrepare"
      [] c = 7 -> "onInteract"

KindOf(c) ==
    CASE c = 1 -> "danmaku" [] c = 2 -> "gift" [] c = 3 -> "superchat"
      [] c = 4 -> "guard" [] c = 5 -> "live" [] c = 6 -> "preparing"
      [] c = 7 -> "interact"

\* C11: dispatching a command packet leaves a full channel as it was (the
\* event is dropped for it), appends one event of the room to every channel
\* with free capacity, whatever its place among the channels, and calls
\* every raw callback.
C11_PublishNeverBlocks ==
    [][\A r \in 1..2, pkt \in DispPackets :
          (pkt.OpType = OpCommand /\ DispatchOne(r, pkt)) =>
              /\ \A ch \in ChanSet :
                    IF Len(chanBuf[ch]) = SubCap
                    THEN chanBuf'[ch] = chanBuf[ch]
                    ELSE /\ Len(chanBuf'[ch]) = Len(chanBuf[ch]) + 1
                         /\ SubSeq(chanBuf'[ch], 1, Len(chanBuf[ch])) = chanBuf[ch]
                         /\ chanBuf'[ch][Len(chanBuf'[ch])].RoomID = getRoomInfo(r)
              /\ Len(CallsOf(log', "onRaw")) = handlers["onRaw"]]_vars

\* C11 happens: one packet's event was dropped for the full first channel
\* and sent to the second, after a raw and a typed callback were called.
C11_Witness ==
    /\ \E i \in DOMAIN log : log[i].fn = "drop" /\ log[i].idx = 1
    /\ \E i \in DOMAIN log : log[i].fn = "send" /\ log[i].idx = 2
    /\ \E i \in DOMAIN log : log[i].fn = "onRaw"
    /\ \E i \in DOMAIN log : log[i].fn \in TypedLists
    /\ Len(chanBuf[1]) = SubCap

\* C12: dispatching a command packet calls every registered raw callback
\* once, in registration order, with the command name of the body (empty
\* when the body cannot be parsed) and the body itself, before anything else
\* the packet causes.
C12_RawAlwaysFirst ==
    [][\A r \in 1..2, b \in CmdBodies :
          DispatchOne(r, CmdPacket(b)) =>
              LET n == handlers["onRaw"] IN
              /\ Len(log') >= n
              /\ \A i \in 1..n : log'[i] = Entry("onRaw", i, getRoomInfo(r), NameIn(b), b)
              /\ \A i \in (n + 1)..Len(log') : log'[i].fn # "onRaw"]_vars

\* C12 happens: two raw callbacks were called with an empty name and an
\* unparseable body, and the event was published after them.
C12_Witness ==
    /\ handlers["onRaw"] = 2
    /\ Len(log) > 2
    /\ log[1].fn = "onRaw" /\ log[1].cmd = "" /\ log[1].arg \in Unparseable
    /\ log[2].fn = "onRaw" /\ log[2].arg = log[1].arg
    /\ log[3].fn \in {"send", "drop"}

\* C13: dispatching a command packet whose name is none of the seven calls
\* no typed callback and no heartbeat callback, and offers every channel
\* exactly one event: of type raw, of the packet's room, holding the body.
C13_UnrecognisedIsRaw ==
    [][\A r \in 1..2, b \in CmdBodies :
          (NameIn(b) \notin {CmdName(c) : c \in 1..7} /\ DispatchOne(r, CmdPacket(b))) =>
              /\ \A l \in TypedLists \cup {"onHeart"} : CallsOf(log', l) = <<>>
              /\ \A ch \in ChanSet :
                    LET o == OffersTo(log', ch) IN
                    /\ Len(o) = 1
                    /\ o[1].cmd = "raw"
                    /\ o[1].room = getRoomInfo(r)
                    /\ o[1].arg = b]_vars

\* C13 happens: with a typed callback registered, FOO_BAR reached a raw
\* callback and went to the second channel as a raw event.
C13_Witness ==
    /\ \E l \in TypedLists : handlers[l] > 0
    /\ \E i \in DOMAIN log : log[i].fn = "onRaw" /\ log[i].cmd = "FOO_BAR"
    /\ \E i \in DOMAIN log : log[i].fn = "send" /\ log[i].idx = 2 /\ log[i].cmd = "raw"

\* C14, as stated: dispatching a packet with one of the seven command names
\* calls the callbacks of the list of that command and of no other typed
\* list, LIVE with Live = true and PREPARING with Live = false, and offers
\* every channel one event of the command's type, whatever the payload.
C14_RecognisedIsTyped ==
    [][\A r \in 1..2, c \in 1..7, p \in Payloads :
          DispatchOne(r, CmdPacket(jsonBody(c, p))) =>
              /\ \A l \in TypedLists :
                    Len(CallsOf(log', l)) = IF l = ListOf(c) THEN handlers[l] ELSE 0
              /\ c \in {5, 6} =>
                    \A i \in DOMAIN log' :
                        log'[i].fn \in TypedLists =>
                            log'[i].arg = <<getRoomInfo(r), IF c = 5 THEN 1 ELSE 0>>
              /\ \A ch \in ChanSet :
                    LET o == OffersTo(log', ch) IN
                    Len(o) = 1 /\ o[1].cmd = KindOf(c)]_vars


(***************************************************************************)
(* Properties of c.mu (specification SpecMutex).                           *)
(***************************************************************************)
\* The dispatch of room b waits inside c.mu.RLock().
Stalled(b) == dPc[b] \in {"rawWait", "typedWait", "pubWait"}

\* C15, as stated: the dispatch of a room waits for c.mu only while a
\* registration call is able to finish by itself (it holds the lock, or no
\* reader is inside): it never waits for a callback of another room to
\* return, also while registration methods are being called.
C15_OtherRoomsProgress ==
    \A b \in RoomSet :
        Stalled(b) =>
            \E g \in Registrars :
                regPc[g] = "locked" \/ (regPc[g] = "pending" /\ Readers = {})

(***************************************************************************)
(* More properties of the client lifecycle (specification Spec).           *)
(***************************************************************************)
\* The supervisors of room r that are in their read loop.
ReadersOf(r) == {t \in TasksOf(r) : tasks[t].pc = "streaming"}

\* C16, as stated: no room has two supervisors in their read loop at the
\* same time, so that dispatch never runs concurrently for one room,
\* whatever rooms were configured and whatever Start, AddRoom and RemoveRoom
\* calls were made.
C16_OneReaderPerRoom == \A r \in RoomSet : Cardinality(ReadersOf(r)) <= 1

(***************************************************************************)
(* Properties of splitMessage (specification SpecSplit).                   *)
(***************************************************************************)
RECURSIVE Concat(_)
Concat(ss) == IF ss = <<>> THEN <<>> ELSE Head(ss) \o Concat(Tail(ss))

\* b is UTF-8: one encoding after the other, nothing else.
RECURSIVE WellFormed(_)
WellFormed(b) ==
    \/ b = <<>>
    \/ EncodingAt(b) > 0 /\ WellFormed(SubSeq(b, EncodingAt(b) + 1, Len(b)))

\* The chunks are chunks of maxLen characters: none longer, all but the last
\* exactly that long.
ChunkLengths ==
    \A i \in DOMAIN chunks.val :
        /\ Len(Runes(chunks.val[i])) <= maxLen
        /\ i < Len(chunks.val) => Len(Runes(chunks.val[i])) = maxLen

\* C19, as stated: for every message and every maxLength >= 1 the chunks
\* put together are the message, no chunk has more than maxLength
\* characters, every chunk but the last has exactly maxLength, and no
\* character's bytes are in two chunks.
C19_SplitPreserves ==
    chunks.done =>
        /\ Concat(chunks.val) = splitMsg
        /\ ChunkLengths
        /\ WellFormed(splitMsg) => \A i \in DOMAIN chunks.val : WellFormed(chunks.val[i])

\* C19, amended: the same for every message that is valid UTF-8; of a
\* message that is not, the chunks still have the lengths stated, and put
\* together they are the message with U+FFFD in place of every invalid byte
\* when it was split, the message itself when it was not.
C19_SplitPreservesText ==
    chunks.done =>
        /\ ChunkLengths
        /\ WellFormed(splitMsg) =>
              /\ Concat(chunks.val) = splitMsg
              /\ \A i \in DOMAIN chunks.val : WellFormed(chunks.val[i])
        /\ ~WellFormed(splitMsg) =>
              Concat(chunks.val) =
                  IF Len(chunks.val) = 1 THEN splitMsg ELSE String(Runes(splitMsg))

\* C19 happens: a message with multi-byte characters was split into three
\* chunks.
C19_Witness ==
    /\ chunks.done
    /\ Len(chunks.val) = 3
    /\ Len(splitMsg) > 3
    /\ WellFormed(splitMsg)
    /\ \E i \in DOMAIN chunks.val : Len(chunks.val[i]) > Len(Runes(chunks.val[i]))

(***************************************************************************)
(* Properties of the Sender (specification SpecSender).                    *)
(***************************************************************************)
\* C17, as stated: an HTTP send to a room is made at least the cooldown
\* after the previous HTTP send to that room through this Sender, whoever
\* made it: another chunk of the same message or another caller, also one
\* calling Send concurrently.
C17_CooldownBetweenSends ==
    [][\A c \in Callers :
          SendRequest(c) =>
              LET r == callers[c].room IN
              r \in DOMAIN lastReq => now - lastReq[r] >= Cooldown]_vars

\* C18: what waitCooldown does for a send to room A is decided by the clock
\* and room A's last-send time alone: it goes on to send at once when room A
\* has no recorded send or the cooldown since it has elapsed, and otherwise
\* sleeps until that time plus the cooldown, whatever was recorded or is in
\* flight for other rooms.
C18_OnlyOwnRoom ==
    [][\A c \in Callers :
          WaitCooldown(c) =>
              LET r == callers[c].room IN
              IF r \in DOMAIN lastSend /\ now - lastSend[r] < Cooldown
              THEN /\ callers'[c].pc = "sleep"
                   /\ callers'[c].wake = lastSend[r] + Cooldown
              ELSE callers'[c].pc = "send"]_vars

\* C18 happens: a caller goes on to send to a room without a recorded send,
\* not having slept, while another caller sleeps in the running cooldown of
\* the other room.
C18_Witness ==
    \E c, d \in Callers :
        /\ callers[c].pc = "send"
        /\ callers[c].wake = 0
        /\ callers[c].room \notin DOMAIN lastSend
        /\ callers[d].room \in DOMAIN lastSend
        /\ now - lastSend[callers[d].room] < Cooldown
        /\ callers[d].pc = "sleep"
        /\ callers[d].room # callers[c].room

\* C20: the chunks a call of Send has sent are the first chunks of its
\* message in their order; a call that returned the error of chunk i sent
\* nothing after chunk i, and a call that returned nil sent them all.
C20_FirstFailureEnds ==
    \A c \in Callers :
        LET cl == callers[c] IN
        /\ cl.out = SubSeq(cl.chunks, 1, Len(cl.out))
        /\ cl.err.kind = "chunk" =>
              /\ cl.pc = "done"
              /\ Len(cl.out) <= cl.err.chunk
              /\ Len(cl.out) >= cl.err.chunk - 1
        /\ (cl.pc = "done" /\ cl.err.kind = "none") => cl.out = cl.chunks

\* C20 happens: a call with two chunks returned the error of its first
\* chunk, which was sent, and another call sent both its chunks.
C20_Witness ==
    \E c, d \in Callers :
        /\ callers[c].pc = "done"
        /\ callers[c].err = [kind |-> "chunk", chunk |-> 1]
        /\ Len(callers[c].chunks) = 2
        /\ Len(callers[c].out) = 1
        /\ callers[d].pc = "done"
        /\ callers[d].err.kind = "none"
        /\ Len(callers[d].out) = 2

\* C21: after the HTTP call of a chunk (the step that takes a caller out of
\* sendOne's request, whatever the outcome: success, a rejection, a response
\* that cannot be read or parsed, a transport failure) the room's last-send
\* time is the time of that step.
C21_RecordedWhateverOutcome ==
    [][\A c \in Callers :
          (callers[c].pc = "inflight" /\ callers'[c].pc # "inflight")
              => /\ callers[c].room \in DOMAIN lastSend'
                 /\ lastSend'[callers[c].room] = now]_vars

\* C22: with SESSDATA or bili_jct missing, every Send returns the
\* configuration error at once: no caller is ever in the cooldown wait or in
\* a request, nothing was sent, and no last-send time is recorded.
C22_CookieRequired ==
    (~cookie.sessdata \/ ~cookie.biliJCT) =>
        /\ lastSend = NoEntries
        /\ lastReq = NoEntries
        /\ \A c \in Callers :
              /\ callers[c].pc \in {"idle", "done"}
              /\ callers[c].out = <<>>
              /\ callers[c].pc = "done" => callers[c].err.kind = "cookie required"

\* A Send has returned the configuration error with only one of the two
\* credentials missing.
C22_Witness ==
    /\ cookie.sessdata # cookie.biliJCT
    /\ \E c \in Callers :
          callers[c].pc = "done" /\ callers[c].err.kind = "cookie required"

\* C23: a caller in waitCooldown's select whose ctx is cancelled can return
\* at once (the return is enabled whatever the clock); every step it takes
\* from there sends nothing, and before the timer is due that step is the
\* return of the context's error; a call that returned the context's error
\* sent only the chunks before the pending one.
C23_CancelEndsWait ==
    [][\A c \in Callers :
          /\ (callers[c].pc = "sleep" /\ callers[c].cancelled)
                => /\ ENABLED SleepCancelled(c)
                   /\ callers'[c].out = callers[c].out
                   /\ (callers'[c] # callers[c] /\ now < callers[c].wake)
                         => /\ callers'[c].pc = "done"
                            /\ callers'[c].err.kind = "context canceled"
          /\ callers[c].err.kind = "context canceled"
                => /\ callers[c].pc = "done"
                   /\ callers'[c] = callers[c]
                   /\ callers[c].out = SubSeq(callers[c].chunks, 1, callers[c].i - 1)]_vars

\* A call of two chunks has returned the context's error from the wait before
\* its second chunk, before the cooldown had elapsed.
C23_Witness ==
    \E c \in Callers :
        /\ callers[c].pc = "done"
        /\ callers[c].err.kind = "context canceled"
        /\ callers[c].i = 2
        /\ Len(callers[c].out) = 1
        /\ now < callers[c].wake

(***************************************************************************)
(* Properties of decodePackets (specification SpecCodec).                  *)
(***************************************************************************)
\* A frame that is the encoding of a packet, or an envelope of one or more
\* such frames.
RECURSIVE Sound(_)
Sound(fr) ==
    \/ fr.kind = "plain"
    \/ /\ fr.kind \in {"zlib", "brotli"}
       /\ fr.inner # <<>>
       /\ \A i \in 1..Len(fr.inner) : Sound(fr.inner[i])

\* The packets of the plain frames of frs, those inside envelopes included,
\* in the order of the bytes.
RECURSIVE Flatten(_)
Flatten(frs) ==
    IF frs = <<>> THEN <<>>
    ELSE (IF Head(frs).kind = "plain" THEN << Head(frs).p >> ELSE Flatten(Head(frs).inner))
         \o Flatten(Tail(frs))

\* C24: decodePackets(encodePacket(p)) is exactly the packet p (protocol,
\* operation, sequence, body), for p of protocol version 0 or 1, the empty
\* body included.
C24_RoundTrip ==
    (decoded.done /\ Len(frames) = 1 /\ frames[1].kind = "plain")
        => /\ buf = encodePacket(frames[1].p)
           /\ decoded.val = [ok |-> TRUE, panic |-> FALSE, packets |-> << frames[1].p >>]

\* A packet of protocol 1 with a body, four different bytes in its operation
\* and the sequence 2^31 - 1 has made the round trip.
C24_Witness ==
    /\ decoded.done
    /\ Len(frames) = 1
    /\ frames[1].kind = "plain"
    /\ frames[1].p.Protocol = ProtoSpecial
    /\ frames[1].p.Sequence = 2147483647
    /\ decoded.val.ok
    /\ decoded.val.packets[1].Body # <<>>

C26_FramingError ==
    (/\ decoded.done
     /\ \E i \in 1..Len(frames) :
           /\ frames[i].kind = "size"
           /\ \A j \in 1..(i - 1) : Sound(frames[j]))
        => decoded.val = DecodeErr

\* C27: when the only unsound frames of a buffer are envelopes that do not
\* decompress, the packets of the other frames are returned.
C27_BadFrameSkipped ==
    (/\ decoded.done
     /\ \A i \in 1..Len(frames) :
           Sound(frames[i]) \/ frames[i].kind \in {"badzlib", "badbrotli"})
        => /\ decoded.val.ok
           /\ decoded.val.packets = Flatten(SelectSeq(frames, Sound))

(***************************************************************************)
(* Properties of concurrent AddRoom calls (specification SpecAdd).         *)
(***************************************************************************)
\* C28: a call of AddRoom(r) that read a nil parentCtx (Start not called)
\* only appends r to the configured rooms.  One that read the ctx of Start
\* returns an error and starts nothing when c.rooms has an entry for r (a
\* connected room or a reservation), and otherwise reserves r, starts one
\* supervisor for r and returns nil; a reservation is always that of a call
\* about to return nil or of a supervisor about to register; and of the calls
\* made for a room at most one has returned nil.
C28_AddRoomOnce ==
    [][/\ \A a \in AdderSet :
            /\ (adder[a].pc = "gotCtx" /\ adder'[a] # adder[a]) =>
                  IF adder[a].ctx = 0
                  THEN /\ roomIDs' = Append(roomIDs, adder[a].room)
                       /\ adder'[a].pc = "idle"
                       /\ UNCHANGED << rooms, tasks, wg, added >>
                  ELSE IF rooms[adder[a].room].ok
                       THEN /\ adder'[a].pc = "idle"
                            /\ UNCHANGED << roomIDs, rooms, tasks, wg, added >>
                       ELSE /\ adder'[a].pc = "reserved"
                            /\ rooms'[adder[a].room] = [ok |-> TRUE, cancel |-> 0]
            /\ (adder[a].pc = "reserved" /\ adder'[a] # adder[a]) =>
                  /\ added'[adder[a].room] = added[adder[a].room] + 1
                  /\ wg' = wg + 1
                  /\ \E t \in TaskSet :
                        /\ tasks[t] = NoTask
                        /\ tasks' = [tasks EXCEPT ![t] = NewTask(adder[a].room, adder[a].ctx)]
       /\ \A r \in RoomSet :
            /\ added'[r] <= 1
            /\ rooms'[r] = [ok |-> TRUE, cancel |-> 0] =>
                  \/ \E a \in AdderSet : adder'[a].pc = "reserved" /\ adder'[a].room = r
                  \/ \E t \in TaskSet : tasks'[t].room = r /\ tasks'[t].pc = "spawned"]_vars

\* Two calls of AddRoom(1) after Start are under way: one holds the
\* reservation, the other is about to look the room up.
C28_Witness ==
    \E a, b \in AdderSet :
        /\ a # b
        /\ adder[a].pc = "reserved" /\ adder[a].room = 1
        /\ adder[b].pc = "gotCtx" /\ adder[b].room = 1 /\ adder[b].ctx # 0

(***************************************************************************)
(* Properties of the heartbeat of one roomConn (specification SpecConn).   *)
(***************************************************************************)
\* C29: once a heartbeat write has failed on a live room, the supervisor does
\* not stay blocked in its read: it has a step of its own to take (towards
\* the cleanup and the backoff) without the server sending or closing.
C29_HeartbeatErrorEndsStreaming ==
    (hbPc = "done" /\ ~rcCtxDone /\ rcPc = "read" /\ wsOpen) => ENABLED RunStep

(***************************************************************************)
(* Properties of the socket writes (specification SpecWrite).              *)
(***************************************************************************)
\* The goroutines of the roomConn that are inside ws.WriteMessage: 0 is the
\* goroutine of run (the auth write), i the heartbeat goroutine i.
InWrite == {i \in DOMAIN hbs : hbs[i].pc = "write"} \cup (IF rcPc = "authWrite" THEN {0} ELSE {})

\* C30: at no time are two goroutines of one supervisor inside a socket
\* write: not the auth write and a heartbeat write, and not the heartbeat
\* writes of an old and of the new cycle.
C30_WritesSerialized == Cardinality(InWrite) <= 1

\* The auth packet of a new cycle is being written while the heartbeat
\* goroutine of an earlier cycle, its tick taken, waits for rc.wsMu.
C30_Witness ==
    /\ rcPc = "authWrite"
    /\ \E i \in DOMAIN hbs : hbs[i].pc = "lock" /\ ~hbs[i].live

(***************************************************************************)
(* Properties of the cycles of one roomConn (specification SpecCycle).     *)
(***************************************************************************)
\* C31: on every cycle the auth packet is the first message written on the
\* new socket, the heartbeat goroutine exists only once the auth packet is
\* written, the cycle is streaming as soon as it is written (no reply is
\* read first), and its body asks for protover 3 with a token, 2 without.
C31_AuthFirst ==
    /\ (sent # <<>> /\ wsOpen) => sent[1] = buildAuthPacket(realRoomID, token)
    /\ sent # <<>> => sent[1].op = OpCertificate
    /\ \A i \in 2..Len(sent) : sent[i].op = OpHeartbeat
    /\ hbPc = "waiting" => sent # <<>>
    /\ (sent # <<>> /\ wsOpen) => (streamed /\ rcPc \in {"loop", "read"})
    /\ sent # <<>> => sent[1].body.protover = (IF sent[1].body.key = "" THEN 2 ELSE 3)

\* A second cycle, on the default server after a failed endpoint lookup, has
\* written its auth packet with protover 2 and then a heartbeat.
C31_Witness ==
    /\ attempt >= 1
    /\ Len(sent) = 2
    /\ wssURL = "default"
    /\ sent[1].body.protover = 2
    /\ sent[2].op = OpHeartbeat

\* A cycle has written its auth packet with a token and protover 3.
C31_WitnessToken == sent # <<>> /\ token = "tok" /\ sent[1].body.protover = 3

C33_LookupFailureOpensNoSocket ==
    wsOpen => (realRoomID # 0 /\ wssURL # "default")

C35_HeartbeatReply ==
    [][\A r \in 1..2, pkt \in HeartPackets :
          DispatchOne(r, pkt) =>
              IF pkt.OpType = OpHeartbeatReply /\ Len(pkt.Body) >= 4
              THEN LET n == handlers["onHeart"]
                       v == Uint32(pkt.Body) IN
                   /\ pkt.Body = <<0, 0, 1, 44>> => v = 300
                   /\ Len(log') = n + Len(subs)
                   /\ \A i \in 1..n : log'[i] = Entry("onHeart", i, getRoomInfo(r), "", <<v>>)
                   /\ \A ch \in ChanSet :
                         LET o == OffersTo(log', ch) IN
                         /\ Len(o) = 1
                         /\ o[1].cmd = "heartbeat"
                         /\ o[1].room = getRoomInfo(r)
                         /\ o[1].arg = <<v>>
                   /\ chanBuf'[2] = <<[RoomID |-> getRoomInfo(r), Type |-> "heartbeat",
                                       Data |-> <<v>>]>>
              ELSE log' = <<>> /\ chanBuf' = chanBuf]_vars

\* C35 happens: two heartbeat callbacks were called with 300 and the event
\* was then dropped for the full channel and sent to the other.
C35_Witness ==
    /\ handlers["onHeart"] = 2
    /\ Len(log) = 4
    /\ log[1] = Entry("onHeart", 1, getRoomInfo(2), "", <<300>>)
    /\ log[2] = Entry("onHeart", 2, getRoomInfo(2), "", <<300>>)
    /\ log[3].fn = "drop" /\ log[3].idx = 1
    /\ log[4].fn = "send" /\ log[4].idx = 2 /\ log[4].arg = <<300>>

(***************************************************************************)
(* Properties of the read loop of a streaming roomConn (SpecStream).       *)
(***************************************************************************)
\* C36: a message decodePackets does not decode (framing or decompression)
\* leaves the connection as it is: nothing is dispatched for it, the socket
\* stays open with its heartbeat goroutine, and the read loop goes on to the
\* next read.
C36_DecodeErrorKeepsConnection ==
    [][\A fr \in StreamMsgs :
          (StreamRead(fr) /\ ~decoded'.val.ok) =>
              /\ panicked' = "none"
              /\ rcPc' = "loop"
              /\ wsOpen' /\ hbPc' = hbPc /\ streamed'
              /\ log' = <<>>
              /\ chanBuf' = chanBuf]_vars

\* C40: once the room's context is cancelled no packet of the room is
\* dispatched: a message read after that calls no callback and offers no
\* event to any channel.
C40_NoDispatchAfterCancel ==
    [][\A fr \in StreamMsgs :
          (rcCtxDone /\ StreamRead(fr)) => (log' = <<>> /\ chanBuf' = chanBuf)]_vars

(***************************************************************************)
(* Properties of the client lifecycle (specification Spec), continued.     *)
(***************************************************************************)
\* C37: with every room configured once, a room goroutine that exits
\* removes only its own entry of c.rooms:
\* an entry that holds the cancel function of another goroutine, or the
\* reservation of an AddRoom that came after the RemoveRoom, is still there
\* after the exit.
C37_ExitRemovesOwnEntry ==
    [][\A t \in TaskSet :
          (TaskExit(t) /\ \A i, j \in DOMAIN roomIDs : roomIDs[i] = roomIDs[j] => i = j) =>
              \A r \in RoomSet :
                  (rooms[r].ok /\ rooms[r].cancel # t) => rooms'[r] = rooms[r]]_vars

(***************************************************************************)
(* Properties of c.mu with registering callbacks (SpecReentrant).          *)
(***************************************************************************)
\* C38: dispatch does not deadlock on c.mu: whatever the callbacks call,
\* while a dispatch is under way or a registration call has not returned
\* some dispatch or registration step can be taken.
C38_NoDeadlock ==
    (\E r \in RoomSet : dPc[r] # "idle") => ENABLED MuStep

(***************************************************************************)
(* Properties of splitMessage taken step by step (SpecLoop).               *)
(***************************************************************************)
\* C39: splitMessage terminates for every message and every maxLength:
\* every iteration of its loop takes at least one rune off runes and does
\* not panic, so the loop ends after at most len(runes) iterations.
C39_LoopConsumes ==
    [][LoopIter => (loopPc' = "loop" /\ Len(loopRunes') < Len(loopRunes))]_vars

\* For the chunk lengths of SpecSplit the loop returns what splitMessage is
\* there.
LoopAgrees ==
    (loopPc = "done" /\ maxLen >= 1) => chunks.val = splitMessage(splitMsg, maxLen)
====
